---- MODULE Spec2Model ----
(***************************************************************************)
(* Model of the usefulApi wrapper (vue-useful-api/src/usefulApi.ts).       *)
(*                                                                         *)
(* One wrapper instance is modelled: the closure state created by the      *)
(* inner arrow function of usefulApi(fn).  The wrapped operation fn is     *)
(* the environment: each call of fn returns a promise that later resolves  *)
(* or rejects.  The continuations chained on that promise (.then, .catch,  *)
(* .finally) run as separate steps, so execute calls and continuations of  *)
(* different invocations interleave freely.  Subscribers of the three      *)
(* event hooks are observers: they record what they are handed and what    *)
(* they can read from the wrapper at that moment.                          *)
(***************************************************************************)
EXTENDS Integers, Sequences, FiniteSets, Bags, TLC

\* ---------------------------------------------------------------- bounds
MaxExecutes == 3       \* execute calls in Spec
MaxExecutesAll == 2    \* execute calls in SpecAll
MaxDirect == 1         \* executeDirect calls in SpecAll
MaxSubscribers == 1    \* functions registered per event hook in SpecAll
MaxChanges == 3        \* changes of the watched values in SpecWatch
MaxNavigations == 2    \* navigations in SpecGuard
MaxYearDigits == 5     \* digits between prefix and term indicator in SpecTerm
MaxPadding == 1        \* spaces around the argument in SpecCfop
MaxPrefix == 1         \* characters before the campus code in SpecProgram
MaxTokenCalls == 2      \* calls of getAccessToken in SpecMsal
MaxProviderCalls == 1   \* calls of authTokenProvider in SpecMsal
MaxTicks == 2           \* steps of the clock in SpecMsal
MaxInitializeCalls == 2 \* calls of Auth.initialize in SpecAuth
MaxEvents == 2          \* events delivered to the callback in SpecAuth

\* ---------------------------------------------------------------- values
\* every value a ref or a payload can hold is a record, undefined included
Undefined == [kind |-> "undefined"]

\* The wrapped operation fn: the value its promise resolves with, and the
\* value it rejects with, for the call identified by id.
FnResult(id, args) == [kind |-> "result", call |-> id, of |-> args]
FnError(id) == [kind |-> "error", call |-> id]

VARIABLES
    executeCounter,   \* let executeCounter
    isFinished,       \* ref isFinished
    isLoading,        \* ref isLoading
    response,         \* shallowRef response
    error,            \* shallowRef error
    listeners,        \* number of functions registered on each event hook
    calls,            \* one record per execute invocation
    events,           \* bag of the trigger calls made on the three hooks
    direct,           \* one record per executeDirect invocation
    lastFailure,      \* history: the value most recently handed to .catch, and
                      \* whether an execute call has started since
    \* ---- apiWatch (vue-useful-api/src/apiWatch.ts), one registration
    hasExecuted,      \* let hasExecuted
    lastArgs,         \* let lastArgs
    watch,            \* the watcher set up by apiWatch: phase, debounce option,
                      \* oldValue, queued job, pending debounce timer
    watched,          \* what the watcher function returns when evaluated now
    filterObject,     \* content of the one mutable object an argument list may hold
    runLog,           \* history: the calls of run, with what exec was handed
    changes,          \* number of changes made to the watched values
    \* ---- registerAuthGuard (vue-auth/src/authGuard.ts), one router
    to,               \* the route the router hands to the guard
    guard,            \* the guard's call for that navigation: position, what
                      \* isAuthenticated resolved to, what the guard returned
    authStore,        \* the auth store: isAuthenticated, calls of login
    navigations,      \* number of navigations started
    \* ---- parseTermCode (codex/src/terms.ts)
    code,             \* argument code
    returnDefault,    \* argument returnDefault
    now,              \* new Date(): year and month of the clock
    term,             \* what the call returned
    \* ---- splitCfop (codex/src/cfop.ts)
    cfop,             \* argument cfop
    parts,            \* what the call returned
    \* ---- splitProgramCode, buildProgramCode (codex/src/programs.ts)
    programCode,      \* argument programCode
    programParts,     \* what splitProgramCode returned
    programBuilt,     \* what buildProgramCode returned for these parts
    \* ---- useMsalStore (vue-auth, the msal store)
    accessToken,        \* ref accessToken
    accessTokenExpires, \* ref accessTokenExpires, milliseconds
    accessTokenPromise, \* let accessTokenPromise
    allowedHosts,       \* new Set(auth.msalConfig.allowedHosts || [])
    dateNow,            \* Date.now(), milliseconds
    loadRequests,       \* history: the calls of auth.loadApiToken
    tokenCalls,         \* history: the calls of getAccessToken
    providerCalls,      \* history: the calls of authTokenProvider
    \* ---- Auth (vue-auth/src/Auth.ts)
    status,             \* field status
    inProgress,         \* field inProgress
    ready,              \* field ready
    redirect,           \* field redirect
    initializing,       \* field initializing
    accounts,           \* field accounts
    accountValue,       \* field account: account.value
    msalInstance,       \* the PublicClientApplication: its account cache, its
                        \* initialize() and handleRedirectPromise()
    initializeCalls,    \* history: the calls of Auth.initialize
    event,              \* the event the callback was last called with and
                        \* the status it yielded
    eventCount          \* number of events delivered

apiVars == <<executeCounter, isFinished, isLoading, response, error,
             listeners, calls, events, direct, lastFailure>>

watchVars == <<hasExecuted, lastArgs, watch, watched, filterObject, runLog, changes>>

guardVars == <<to, guard, authStore, navigations>>

termVars == <<code, returnDefault, now, term>>

cfopVars == <<cfop, parts>>

programVars == <<programCode, programParts, programBuilt>>

msalVars == <<accessToken, accessTokenExpires, accessTokenPromise, allowedHosts, dateNow,
                loadRequests, tokenCalls, providerCalls>>

authVars == <<status, inProgress, ready, redirect, initializing, accounts, accountValue,
                msalInstance, initializeCalls, event, eventCount>>

vars == <<apiVars, watchVars, guardVars, termVars, cfopVars, programVars, msalVars, authVars>>

\* ---------------------------------------------------------------- helpers
loadingStuck(state) == [isLoading |-> state, isFinished |-> FALSE]
\* const loading = (state) => { isLoading.value = state; isFinished.value = !state }
loading(state) == [isLoading |-> state, isFinished |-> ~state]

\* createEventHook().trigger(param): every registered function is called once
\* with the parameter; seen is what the functions read from the refs meanwhile
trigger(hook, by, payload, seen) ==
    [hook |-> hook, by |-> by, payload |-> payload,
     deliveries |-> listeners[hook], seen |-> seen]

\* the values of the refs a subscriber reads during a notification; the
\* on-finished notification is the last statement of its continuation, so
\* what its subscribers read is the state the step leaves behind
Refs(r, e) == [kind |-> "refs", response |-> r, error |-> e]
AfterStep == [kind |-> "afterStep"]

InitApi ==
    /\ executeCounter = 0
    /\ isFinished = FALSE
    /\ isLoading = FALSE
    /\ response = Undefined
    /\ error = Undefined
    /\ listeners = [h \in {"success", "error", "finally"} |-> 0]
    /\ calls = <<>>
    /\ events = EmptyBag
    /\ direct = <<>>
    /\ lastFailure = [value |-> Undefined, executeSince |-> FALSE]

\* ---- apiWatch values
\* an element of an argument list: a primitive, or a reference to the object
Prim(v) == [kind |-> "prim", v |-> v]
Args(list) == [kind |-> "args", list |-> list]

\* what the watcher function can return: undefined (skip) or an argument list
Skip == Undefined

\* before apiWatch is called, for the given state of the watched values
NoWatch(value, content) ==
    /\ hasExecuted = FALSE
    /\ lastArgs = Undefined
    /\ watch = [phase |-> "unregistered", debounce |-> FALSE,
                oldValue |-> [kind |-> "initial"], queued |-> FALSE, timer |-> [kind |-> "none"]]
    /\ watched = value
    /\ filterObject = content
    /\ runLog = <<>>
    /\ changes = 0

\* a wrapper on its own
\* nothing was called yet
NotCalled == [kind |-> "notCalled"]

\* no navigation was started
NoGuard ==
    /\ to = NotCalled
    /\ guard = [pc |-> "idle", consulted |-> FALSE, trace |-> <<>>,
                shouldProceed |-> NotCalled, returned |-> NotCalled]
    /\ authStore = [isAuthenticated |-> FALSE, login |-> <<>>]
    /\ navigations = 0

\* parseTermCode was not called
NoTerm(c, d, n) ==
    /\ code = c
    /\ returnDefault = d
    /\ now = n
    /\ term = NotCalled

\* splitCfop was not called
NoCfop(c) ==
    /\ cfop = c
    /\ parts = NotCalled

\* splitProgramCode was not called
NoProgram(c) ==
    /\ programCode = c
    /\ programParts = NotCalled
    /\ programBuilt = NotCalled

\* the msal store right after its setup, with the configured allowedHosts
NoMsal(hosts) ==
    /\ accessToken = [kind |-> "string", s |-> "", id |-> 0]
    /\ accessTokenExpires = 0
    /\ accessTokenPromise = [kind |-> "null"]
    /\ allowedHosts = hosts
    /\ dateNow = 0
    /\ loadRequests = <<>>
    /\ tokenCalls = <<>>
    /\ providerCalls = <<>>

\* Auth.create with an instance whose cache holds these accounts
NoAuth(cached, active) ==
    /\ status = "startup"
    /\ inProgress = FALSE
    /\ ready = FALSE
    /\ redirect = FALSE
    /\ initializing = FALSE
    /\ accounts = <<>>
    /\ accountValue = [kind |-> "null"]
    /\ msalInstance = [initialize |-> "idle", initializeStarts |-> 0,
                       handleRedirect |-> "idle",
                       accounts |-> cached, activeAccount |-> active]
    /\ initializeCalls = <<>>
    /\ event = [kind |-> "none"]
    /\ eventCount = 0

Clock(year, month) == [year |-> year, month |-> month]

Init ==
    /\ InitApi
    /\ NoWatch(Skip, 3)
    /\ NoGuard
    /\ NoTerm(<<>>, FALSE, Clock(2026, 2))
    /\ NoCfop(<<>>)
    /\ NoAuth(<<>>, [kind |-> "null"])
    /\ NoMsal({})
    /\ NoProgram(<<>>)

\* an apiWatch registration about to be made, whatever the watcher returns
InitWatch ==
    /\ InitApi
    /\ \E v \in ({Skip, Args(<<Prim(3)>>), Args(<<Prim(5)>>), Args(<<([kind |-> "ref"])>>)}),
           c \in {3, 5} : NoWatch(v, c)
    /\ NoGuard
    /\ NoTerm(<<>>, FALSE, Clock(2026, 2))
    /\ NoCfop(<<>>)
    /\ NoAuth(<<>>, [kind |-> "null"])
    /\ NoMsal({})
    /\ NoProgram(<<>>)

\* onSuccess / onError / onFinally: register a function on a hook
On(hook) ==
    /\ listeners[hook] < MaxSubscribers
    /\ listeners' = [listeners EXCEPT ![hook] = @ + 1]
    /\ UNCHANGED <<executeCounter, isFinished, isLoading, response, error,
                   calls, events, direct, lastFailure>>
    /\ UNCHANGED <<watchVars, guardVars, termVars, cfopVars, programVars, msalVars, authVars>>

NextCounterUnlessLoading == IF isLoading THEN executeCounter ELSE executeCounter + 1
\* executeCounter += 1
NextCounter == executeCounter + 1

ErrorKept == error
\* error.value = undefined
ErrorCleared == Undefined

ExecuteAwaitsChain == "pending"
\* the promise of the async function execute once its body has run: the body
\* neither awaits nor returns the chain built on fn(...args)
ExecuteReturns == "fulfilled"

ResponseCleared == Undefined
\* execute assigns nothing to response: the last result stays
ResponseKept == response

LoadingNotStarted == loading(FALSE)
\* loading(true)
LoadingStarted == loading(TRUE)

\* execute(...args): the synchronous body up to and including the call of fn
\* and the chaining of the three continuations
Execute(args) ==
    /\ executeCounter < MaxExecutes
    /\ executeCounter' = NextCounter
    /\ isLoading' = LoadingStarted.isLoading
    /\ isFinished' = LoadingStarted.isFinished
    /\ error' = ErrorCleared
    /\ calls' = Append(calls,
                  [currentExecuteCounter |-> executeCounter',
                   args |-> args,
                   originalArgs |-> args,
                   pc |-> "pending",
                   promise |-> ExecuteReturns])
    /\ lastFailure' = [lastFailure EXCEPT !.executeSince = (lastFailure.value # Undefined)]
    /\ response' = ResponseKept
    /\ UNCHANGED <<listeners, events, direct>>
    /\ UNCHANGED <<watchVars, guardVars, termVars, cfopVars, programVars, msalVars, authVars>>

NeverStale(c) == FALSE
\* if (currentExecuteCounter !== executeCounter) return
Stale(c) == c.currentExecuteCounter # executeCounter

\* fn's promise resolves and the .then continuation of invocation i runs
ThenHandler(i) ==
    /\ i \in 1..Len(calls)
    /\ calls[i].pc = "pending"
    /\ LET c == calls[i]
           res == FnResult(<<"execute", i>>, c.args)
       IN  IF Stale(c)
           THEN UNCHANGED <<response, events>>
           ELSE /\ response' = res
                /\ events' = events (+) SetToBag({
                      trigger("success", i,
                              [kind |-> "payload", result |-> res, args |-> c.originalArgs],
                              Refs(res, error))})
    /\ calls' = [calls EXCEPT ![i].pc = "resolved"]
    /\ UNCHANGED <<executeCounter, isFinished, isLoading, error, listeners, direct,
                   lastFailure>>
    /\ UNCHANGED <<watchVars, guardVars, termVars, cfopVars, programVars, msalVars, authVars>>

CaughtUnlessStale(c, err) == IF c.currentExecuteCounter # executeCounter THEN error ELSE err
\* error.value = err
Caught(c, err) == err

SeenAfterAssignment(err) == Refs(response, err)
\* apiError.trigger(err) comes before error.value = err: the subscribers read
\* the refs as they were
SeenByErrorSubscribers(err) == Refs(response, error)

\* fn's promise rejects and the .catch continuation of invocation i runs
CatchHandler(i) ==
    /\ i \in 1..Len(calls)
    /\ calls[i].pc = "pending"
    /\ LET err == FnError(<<"execute", i>>)
       IN  /\ events' = events (+) SetToBag({trigger("error", i, err, SeenByErrorSubscribers(err))})
           /\ error' = Caught(calls[i], err)
           /\ lastFailure' = [value |-> err, executeSince |-> FALSE]
    /\ calls' = [calls EXCEPT ![i].pc = "rejected"]
    /\ UNCHANGED <<executeCounter, isFinished, isLoading, response, listeners, direct>>
    /\ UNCHANGED <<watchVars, guardVars, termVars, cfopVars, programVars, msalVars, authVars>>

AlwaysCurrent(c) == TRUE
\* if (currentExecuteCounter === executeCounter) loading(false)
Current(c) == c.currentExecuteCounter = executeCounter

StillLoading == loading(TRUE)
\* loading(false)
Settled == loading(FALSE)

FinishedOnlyIfCurrent(i) ==
    IF calls[i].currentExecuteCounter = executeCounter
    THEN events (+) SetToBag({trigger("finally", i, Undefined, AfterStep)})
    ELSE events
\* apiFinally.trigger(undefined)
Finished(i) == events (+) SetToBag({trigger("finally", i, Undefined, AfterStep)})

\* the .finally continuation of invocation i
FinallyHandler(i) ==
    /\ i \in 1..Len(calls)
    /\ calls[i].pc \in {"resolved", "rejected"}
    /\ IF Current(calls[i])
       THEN /\ isLoading' = Settled.isLoading
            /\ isFinished' = Settled.isFinished
       ELSE UNCHANGED <<isLoading, isFinished>>
    /\ events' = Finished(i)
    /\ calls' = [calls EXCEPT ![i].pc =
                    IF calls[i].pc = "resolved" THEN "finishedOk" ELSE "finishedErr"]
    /\ UNCHANGED <<executeCounter, response, error, listeners, direct, lastFailure>>
    /\ UNCHANGED <<watchVars, guardVars, termVars, cfopVars, programVars, msalVars, authVars>>

ExecuteDirectTracked(args) ==
    /\ Len(direct) < MaxDirect
    /\ direct' = Append(direct, [args |-> args, promise |-> "pending", value |-> Undefined])
    /\ isLoading' = loading(TRUE).isLoading
    /\ isFinished' = loading(TRUE).isFinished
    /\ UNCHANGED <<executeCounter, response, error,
                   listeners, calls, events, lastFailure>>
    /\ UNCHANGED <<watchVars, guardVars, termVars, cfopVars, programVars, msalVars, authVars>>
\* executeDirect(...args): return await fn(...args)
ExecuteDirect(args) ==
    /\ Len(direct) < MaxDirect
    /\ direct' = Append(direct, [args |-> args, promise |-> "pending", value |-> Undefined])
    /\ UNCHANGED <<executeCounter, isFinished, isLoading, response, error,
                   listeners, calls, events, lastFailure>>
    /\ UNCHANGED <<watchVars, guardVars, termVars, cfopVars, programVars, msalVars, authVars>>

\* what the promise returned by executeDirect settles to, given fn's outcome
DirectOutcome(k, ok) ==
    IF ok THEN [promise |-> "fulfilled", value |-> FnResult(<<"direct", k>>, direct[k].args)]
          ELSE [promise |-> "rejected", value |-> FnError(<<"direct", k>>)]

\* fn's promise settles for the k-th executeDirect call
DirectSettle(k, ok) ==
    /\ k \in 1..Len(direct)
    /\ direct[k].promise = "pending"
    /\ direct' = [direct EXCEPT ![k] =
                    [args |-> @.args,
                     promise |-> DirectOutcome(k, ok).promise,
                     value |-> DirectOutcome(k, ok).value]]
    /\ UNCHANGED <<executeCounter, isFinished, isLoading, response, error,
                   listeners, calls, events, lastFailure>>
    /\ UNCHANGED <<watchVars, guardVars, termVars, cfopVars, programVars, msalVars, authVars>>

\* one wrapper driven by execute calls only
Next ==
    \/ \E a \in {<<3>>, <<5>>} : Execute(a)
    \/ \E i \in 1..MaxExecutes : ThenHandler(i)
    \/ \E i \in 1..MaxExecutes : CatchHandler(i)
    \/ \E i \in 1..MaxExecutes : FinallyHandler(i)

Spec == Init /\ [][Next]_vars

\* every operation of the wrapper: execute, executeDirect and the three
\* registration functions
NextAll ==
    \/ \E h \in {"success", "error", "finally"} : On(h)
    \/ \E a \in {<<3>>, <<5>>} : executeCounter < MaxExecutesAll /\ Execute(a)
    \/ \E i \in 1..MaxExecutesAll : ThenHandler(i)
    \/ \E i \in 1..MaxExecutesAll : CatchHandler(i)
    \/ \E i \in 1..MaxExecutesAll : FinallyHandler(i)
    \/ \E a \in {<<3>>, <<5>>} : ExecuteDirect(a)
    \/ \E k \in 1..MaxDirect, ok \in BOOLEAN : DirectSettle(k, ok)

SpecAll == Init /\ [][NextAll]_vars

\* Spec with the guarantee of the promise job queue: a continuation that is
\* ready to run does run.  Nothing obliges fn's promise to settle.
SpecFair ==
    /\ Init /\ [][Next]_vars
    /\ \A i \in 1..MaxExecutes : WF_vars(FinallyHandler(i))

\* ---------------------------------------------------------------- apiWatch
\* the value of v with every object reference replaced by the object's content
Snapshot(v, obj) ==
    IF v.kind # "args" THEN v
    ELSE Args([k \in DOMAIN v.list |->
                 IF v.list[k].kind = "ref" THEN [kind |-> "object", q |-> obj]
                 ELSE v.list[k]])

\* fast-equals deepEqual(a, b): structural equality of what a and b hold now
deepEqual(a, b) == Snapshot(a, filterObject) = Snapshot(b, filterObject)

cloneByReference(arg) == arg
\* remeda clone(arg): an independent deep copy
clone(arg) == Snapshot(arg, filterObject)

AlwaysDispatch(arg) == TRUE
\* if (!hasExecuted || !deepEqual(arg, lastArgs))
ShouldDispatch(arg) == ~hasExecuted \/ ~deepEqual(arg, lastArgs)

RunsOnUndefined(arg) == TRUE
\* if (arg)
Truthy(arg) == arg # Skip

ForgottenOnSkip(arg) ==
    [hasExecuted |-> hasExecuted /\ arg # Skip,
     lastArgs |-> IF arg # Skip THEN lastArgs ELSE Undefined]
\* a delivery that is not dispatched assigns neither hasExecuted nor lastArgs
NotDispatched(arg) == [hasExecuted |-> hasExecuted, lastArgs |-> lastArgs]

\* const run: WatchCallback = (arg) => { ... }; the log entry tells whether
\* exec was called and what its arguments held at that moment
run(arg) ==
    IF Truthy(arg) /\ ShouldDispatch(arg)
    THEN /\ hasExecuted' = TRUE
         /\ lastArgs' = clone(arg)
         /\ runLog' = Append(runLog, [arg |-> Snapshot(arg, filterObject), exec |-> TRUE,
                                      phase |-> watch.phase])
    ELSE /\ hasExecuted' = NotDispatched(arg).hasExecuted
         /\ lastArgs' = NotDispatched(arg).lastArgs
         /\ runLog' = Append(runLog, [arg |-> Snapshot(arg, filterObject), exec |-> FALSE,
                                      phase |-> watch.phase])

NeverDebounced(options) == FALSE
\* if (options?.debounce)
Debounced(options) == options.debounce

\* the callback of the watcher is handed value: watch calls run at once,
\* watchDebounced (vueuse debounceFilter) restarts its timer with the call
Deliver(value, w) ==
    IF Debounced(w)
    THEN /\ watch' = [w EXCEPT !.timer =
                        [kind |-> "timer", arg |-> value,
                         burst |-> IF w.timer = [kind |-> "none"] THEN 1 ELSE w.timer.burst + 1]]
         /\ UNCHANGED <<hasExecuted, lastArgs, runLog>>
    ELSE /\ watch' = w
         /\ run(value)

Lazy(options) == FALSE
\* { immediate: true }: the watcher job runs once during the call
Immediate(options) == TRUE

Registered(options) ==
    [phase |-> "active", debounce |-> options.debounce,
     oldValue |-> watched, queued |-> FALSE, timer |-> [kind |-> "none"]]

\* apiWatch(exec, watcher, options): sets up the watcher
ApiWatch(options) ==
    /\ watch.phase = "unregistered"
    /\ IF Immediate(options)
       THEN Deliver(watched, Registered(options))
       ELSE /\ watch' = Registered(options)
            /\ UNCHANGED <<hasExecuted, lastArgs, runLog>>
    /\ UNCHANGED <<watched, filterObject, changes>>
    /\ UNCHANGED <<apiVars, guardVars, termVars, cfopVars, programVars, msalVars, authVars>>

\* a reactive value the watcher reads is set: the watcher now returns v, and
\* an active watcher queues its job (once per flush)
Change(v) ==
    /\ changes < MaxChanges
    /\ changes' = changes + 1
    /\ watched' = v
    /\ watch' = [watch EXCEPT !.queued = (watch.phase = "active")]
    /\ UNCHANGED <<hasExecuted, lastArgs, filterObject, runLog>>
    /\ UNCHANGED <<apiVars, guardVars, termVars, cfopVars, programVars, msalVars, authVars>>

\* the object an argument list refers to is mutated in place
Mutate(c) ==
    /\ changes < MaxChanges
    /\ c # filterObject
    /\ changes' = changes + 1
    /\ filterObject' = c
    /\ UNCHANGED <<hasExecuted, lastArgs, watch, watched, runLog>>
    /\ UNCHANGED <<apiVars, guardVars, termVars, cfopVars, programVars, msalVars, authVars>>

\* Vue runs the queued watcher job: the watcher is evaluated and the callback
\* is called if the value changed (a fresh array always did, undefined after
\* undefined did not)
Flush ==
    /\ watch.queued
    /\ IF watched = Skip /\ watch.oldValue = Skip
       THEN /\ watch' = [watch EXCEPT !.queued = FALSE]
            /\ UNCHANGED <<hasExecuted, lastArgs, runLog>>
       ELSE Deliver(watched, [watch EXCEPT !.queued = FALSE, !.oldValue = watched])
    /\ UNCHANGED <<watched, filterObject, changes>>
    /\ UNCHANGED <<apiVars, guardVars, termVars, cfopVars, programVars, msalVars, authVars>>

\* the debounce window ends: the delayed call of run is made with the
\* arguments of the last delivery (burst counts the deliveries it stands for);
\* a timer callback runs only when no watcher job is waiting to be flushed
TimerFires ==
    /\ watch.timer # [kind |-> "none"]
    /\ ~watch.queued
    /\ watch' = [watch EXCEPT !.timer = [kind |-> "none"]]
    /\ run(watch.timer.arg)
    /\ UNCHANGED <<watched, filterObject, changes>>
    /\ UNCHANGED <<apiVars, guardVars, termVars, cfopVars, programVars, msalVars, authVars>>

\* the scope apiWatch was called in is disposed: Vue stops the watcher, which
\* drops its queued job; the timer of debounceFilter is not tied to the scope
Stop ==
    /\ watch.phase = "active"
    /\ watch' = [watch EXCEPT !.phase = "stopped", !.queued = FALSE]
    /\ UNCHANGED <<hasExecuted, lastArgs, watched, filterObject, runLog, changes>>
    /\ UNCHANGED <<apiVars, guardVars, termVars, cfopVars, programVars, msalVars, authVars>>

NextWatch ==
    \/ \E d \in BOOLEAN : ApiWatch([debounce |-> d])
    \/ \E v \in ({Skip, Args(<<Prim(3)>>), Args(<<Prim(5)>>), Args(<<([kind |-> "ref"])>>)}) : Change(v)
    \/ \E c \in {3, 5} : Mutate(c)
    \/ Flush
    \/ TimerFires
    \/ Stop

SpecWatch == InitWatch /\ [][NextWatch]_vars

\* ---------------------------------------------------------------- authGuard
True == [kind |-> "boolean", value |-> TRUE]
False == [kind |-> "boolean", value |-> FALSE]
Path(p) == [kind |-> "path", path |-> p]

\* if (to.meta.requiresAuth)
requiresAuth(route) == route.meta.requiresAuth = True

ReturnsShouldProceed(shouldProceed) == [kind |-> "boolean", value |-> shouldProceed]
\* return shouldProceed || '/'
GuardReturn(shouldProceed) == IF shouldProceed THEN True ELSE Path("/")

\* isAuthenticated returns: its promise is settled with the value
Resolved(value) == [guard EXCEPT !.pc = "settled", !.shouldProceed = value]

CheckpointSkipped(ok, auth, otherwise) ==
    IF ~ok THEN Resolved(False) ELSE otherwise
\* an awaited step ends: a rejection is caught (return false); otherwise
\* if (authStore.isAuthenticated) return true
Checkpoint(ok, auth, otherwise) ==
    IF ~ok THEN Resolved(False)
    ELSE IF auth THEN Resolved(True)
    ELSE otherwise

\* history: how the awaited step ended and what isAuthenticated was then
Traced(g, step, ok, auth) ==
    [g EXCEPT !.trace = Append(@, [step |-> step, ok |-> ok, auth |-> auth])]

\* the router calls the beforeEach callback for a navigation to route. The
\* callback runs to its first await: for a route that requires authentication
\* it calls isAuthenticated, which calls getAuthStore() inside its try block
\* and awaits initPromise; otherwise it returns true
BeforeEach(route, storeThrows) ==
    /\ guard.pc \in {"idle", "returned"}
    /\ navigations < MaxNavigations
    /\ navigations' = navigations + 1
    /\ to' = route
    /\ guard' = IF requiresAuth(route)
                THEN [pc |-> IF storeThrows THEN "settled" ELSE "initPromise",
                      consulted |-> TRUE, trace |-> <<>>,
                      shouldProceed |-> IF storeThrows THEN False ELSE NotCalled,
                      returned |-> NotCalled]
                ELSE [pc |-> "returned", consulted |-> FALSE, trace |-> <<>>,
                      shouldProceed |-> NotCalled, returned |-> True]
    /\ UNCHANGED authStore
    /\ UNCHANGED <<apiVars, watchVars, termVars, cfopVars, programVars, msalVars, authVars>>

\* await authStore.initPromise ends: rejected (caught, return false) or
\* fulfilled, with the store authenticated or not
InitPromiseSettles(ok, auth) ==
    /\ guard.pc = "initPromise"
    /\ authStore' = [authStore EXCEPT !.isAuthenticated = auth]
    /\ guard' = Traced(Checkpoint(ok, auth, [guard EXCEPT !.pc = "handleRedirect"]),
                       "initPromise", ok, auth)
    /\ UNCHANGED <<to, navigations>>
    /\ UNCHANGED <<apiVars, watchVars, termVars, cfopVars, programVars, msalVars, authVars>>

\* await authStore.handleRedirect() ends; if the store is still not
\* authenticated login(redirectStartPage) is called
HandleRedirectSettles(ok, auth) ==
    /\ guard.pc = "handleRedirect"
    /\ guard' = Traced(Checkpoint(ok, auth, [guard EXCEPT !.pc = "login"]),
                       "handleRedirect", ok, auth)
    /\ authStore' = [isAuthenticated |-> auth,
                     login |-> IF guard'.pc = "login"
                               THEN Append(authStore.login, to.fullPath)
                               ELSE authStore.login]
    /\ UNCHANGED <<to, navigations>>
    /\ UNCHANGED <<apiVars, watchVars, termVars, cfopVars, programVars, msalVars, authVars>>

\* await authStore.login(redirectStartPage) ends
LoginSettles(ok, auth) ==
    /\ guard.pc = "login"
    /\ authStore' = [authStore EXCEPT !.isAuthenticated = auth]
    /\ guard' = Traced(Checkpoint(ok, auth, Resolved(False)), "login", ok, auth)
    /\ UNCHANGED <<to, navigations>>
    /\ UNCHANGED <<apiVars, watchVars, termVars, cfopVars, programVars, msalVars, authVars>>

\* the callback resumes after await isAuthenticated(...) and returns
GuardReturns ==
    /\ guard.pc = "settled"
    /\ guard' = [guard EXCEPT !.pc = "returned",
                              !.returned = GuardReturn(guard.shouldProceed.value)]
    /\ UNCHANGED <<to, authStore, navigations>>
    /\ UNCHANGED <<apiVars, watchVars, termVars, cfopVars, programVars, msalVars, authVars>>

NextGuard ==
    \/ \E route \in ([meta : [requiresAuth : {True, False, Undefined}], fullPath : {"/protected",
           "/"}]), storeThrows \in BOOLEAN : BeforeEach(route, storeThrows)
    \/ \E ok \in BOOLEAN, auth \in BOOLEAN : InitPromiseSettles(ok, auth)
    \/ \E ok \in BOOLEAN, auth \in BOOLEAN : HandleRedirectSettles(ok, auth)
    \/ \E ok \in BOOLEAN, auth \in BOOLEAN : LoginSettles(ok, auth)
    \/ GuardReturns

SpecGuard == Init /\ [][NextGuard]_vars

\* ---------------------------------------------------------------- codex: terms
\* a string is the sequence of its characters
Digits == <<"0", "1", "2", "3", "4", "5", "6", "7", "8", "9">>
\* \d
Digit == {Digits[k] : k \in 1..10}
DigitValue(c) == CHOOSE d \in 0..9 : Digits[d + 1] = c

Unknown == <<"U", "n", "k", "n", "o", "w", "n">>

\* parseInt of a string of decimal digits
RECURSIVE parseInt(_)
parseInt(s) ==
    IF s = <<>> THEN 0
    ELSE 10 * parseInt(SubSeq(s, 1, Len(s) - 1)) + DigitValue(s[Len(s)])

\* `${n}` and n.toString() of an integer
RECURSIVE toString(_)
toString(n) ==
    IF n < 0 THEN <<"-">> \o toString(0 - n)
    ELSE IF n < 10 THEN <<Digits[n + 1]>>
    ELSE toString(n \div 10) \o <<Digits[(n % 10) + 1]>>

UpperCase(c) ==
    CASE c = "a" -> "A" [] c = "e" -> "E" [] c = "g" -> "G" [] c = "i" -> "I"
      [] c = "l" -> "L" [] c = "m" -> "M" [] c = "n" -> "N" [] c = "p" -> "P"
      [] c = "r" -> "R" [] c = "u" -> "U" [] OTHER -> c
\* s.toUpperCase()
toUpperCase(s) == [k \in DOMAIN s |-> UpperCase(s[k])]

monthToGradMonthName(month) ==
    CASE month = 1 -> <<"M", "a", "y">> [] month = 5 -> <<"A", "u", "g">> [] month = 8 -> <<"D", "e", "c">>
monthToTermName(month) ==
    CASE month = 1 -> <<"S", "p", "r", "i", "n", "g">> [] month = 5 -> <<"S", "u", "m", "m", "e",
        "r">> [] month = 8 -> <<"F", "a", "l", "l">>

termRegex(c) ==
    IF /\ Len(c) = 6
       /\ c[1] = "1"
       /\ \A k \in 2..5 : c[k] \in Digit
       /\ c[6] \in {"1", "5", "8"}
    THEN [kind |-> "match", year |-> SubSeq(c, 2, 5), termIndicator |-> c[6]]
    ELSE [kind |-> "null"]

AcademicYearOfSpring(year, month) ==
    toString(year - 1) \o <<"-">> \o toString(year)
\* if (month === 8) `${year}-${year + 1}` else `${year - 1}-${year}`
AcademicYear(year, month) ==
    IF month = 8
    THEN toString(year) \o <<"-">> \o toString(year + 1)
    ELSE toString(year - 1) \o <<"-">> \o toString(year)

\* the object literal both parseTermCode and createTerm return
Term(year, month, name, c) ==
    IF ~(month \in {1, 5, 8}) THEN [kind |-> "throws", message |-> "Invalid month number"]
    ELSE [kind |-> "term",
          year |-> year,
          month |-> month,
          name |-> name,
          gradMonthName |-> monthToGradMonthName(month),
          code |-> c,
          academicYear |-> AcademicYear(year, month),
          termName |-> name \o <<" ">> \o toString(year),
          shortTermName |-> toUpperCase((SubSeq(name, 1, IF Len(name) > 2 THEN 2 ELSE Len(name)))) \o <<" ">>
                               \o (SubSeq((toString(year)), IF Len((toString(year))) > 2
                                   THEN Len((toString(year))) - 1 ELSE 1, Len((toString(year)))))]

UnknownTerm ==
    [kind |-> "term", year |-> 0, month |-> 0, name |-> Unknown,
     gradMonthName |-> Unknown, code |-> Unknown, academicYear |-> Unknown,
     termName |-> Unknown, shortTermName |-> Unknown]

\* generateTermCode(year, month)
generateTermCode(year, month) == <<"1">> \o toString(year) \o toString(month)

\* createTerm(year, monthInput) for a month number
createTerm(year, month) ==
    IF ~(month \in {1, 5, 8}) THEN [kind |-> "throws", message |-> "Invalid month number"]
    ELSE Term(year, month, monthToTermName(month), generateTermCode(year, month))

\* getCurrentTerm(), n being what new Date() yields
getCurrentTerm(n) ==
    createTerm(n.year, IF n.month < 6 THEN 1 ELSE IF n.month <= 9 THEN 5 ELSE 8)

\* parseTermCode(code, returnDefault), n being the clock
parseTermCode(c, d, n) ==
    LET match == termRegex(c) IN
    IF match = [kind |-> "null"]
    THEN IF d THEN getCurrentTerm(n) ELSE UnknownTerm
    ELSE LET year == parseInt(match.year)
             termIndicator == match.termIndicator
         IN CASE termIndicator = "1" -> Term(year, 1, <<"S", "p", "r", "i", "n", "g">>, c)
              [] termIndicator = "5" -> Term(year, 5, <<"S", "u", "m", "m", "e", "r">>, c)
              [] termIndicator = "8" -> Term(year, 8, <<"F", "a", "l", "l">>, c)
              [] OTHER -> [kind |-> "throws", message |-> "Invalid term code"]

InitTerm ==
    /\ InitApi
    /\ NoWatch(Skip, 3)
    /\ NoGuard
    /\ \E c \in ({p \o y \o i \o x : p \in {<<>>, <<"1">>, <<"2">>, <<" ", "1">>},
           y \in (UNION {[1..n -> {"0", "2", "9"}] : n \in 3..MaxYearDigits}), i \in {<<"1">>,
           <<"5">>, <<"8">>, <<"2">>, <<"x">>, <<>>}, x \in {<<>>, <<"\n">>}} \cup {<<>>, <<"b",
           "a", "d">>}), d \in BOOLEAN, n \in ({Clock(2026, m) : m \in {5, 6, 9, 10}}) : NoTerm(c,
           d, n)
    /\ NoCfop(<<>>)
    /\ NoAuth(<<>>, [kind |-> "null"])
    /\ NoMsal({})
    /\ NoProgram(<<>>)

ParseTermCode ==
    /\ term = NotCalled
    /\ term' = parseTermCode(code, returnDefault, now)
    /\ UNCHANGED <<code, returnDefault, now>>
    /\ UNCHANGED <<apiVars, watchVars, guardVars, cfopVars, programVars, msalVars, authVars>>

NextTerm == ParseTermCode

SpecTerm == InitTerm /\ [][NextTerm]_vars

\* ---------------------------------------------------------------- codex: cfop
AnyChart == Digit
\* [1249]
Charts == {"1", "2", "4", "9"}

\* cfop.trim()
RECURSIVE trimStart(_)
trimStart(s) ==
    IF s # <<>> /\ Head(s) \in {" ", "\t", "\n"} THEN trimStart(Tail(s)) ELSE s
RECURSIVE trimEnd(_)
trimEnd(s) ==
    IF s # <<>> /\ s[Len(s)] \in {" ", "\t", "\n"} THEN trimEnd(SubSeq(s, 1, Len(s) - 1)) ELSE s
trim(s) == trimEnd(trimStart(s))

String(text) == [kind |-> "string", text |-> text]

\* [-. ]?(\d{n}) tried at position i; n = 0 stands for an optional group
\* that is not taken
GroupStart(s, i, n) == IF n = 0 THEN i ELSE (IF i <= Len(s) /\ s[i] \in {"-", ".", " "} THEN i + 1 ELSE i)
GroupMatches(s, i, n) ==
    \/ n = 0
    \/ /\ GroupStart(s, i, n) + n - 1 <= Len(s)
       /\ \A k \in GroupStart(s, i, n)..(GroupStart(s, i, n) + n - 1) : s[k] \in Digit
GroupEnd(s, i, n) == GroupStart(s, i, n) + n
Group(s, i, n) ==
    IF n = 0 THEN Undefined
    ELSE String(SubSeq(s, GroupStart(s, i, n), GroupEnd(s, i, n) - 1))

Try(k) ==
    [account |-> <<6, 5, 0>>[(k \div (Len(<<3, 6, 0>>) * Len(<<6, 0>>))) + 1],
     activity |-> <<3, 6, 0>>[((k \div Len(<<6, 0>>)) % Len(<<3, 6, 0>>)) + 1],
     location |-> <<6, 0>>[(k % Len(<<6, 0>>)) + 1]]

\* where the groups start in an attempt to match s with the optional groups
\* as in try
Starts(s, try) ==
    LET fund == 2
        org == GroupEnd(s, fund, 6)
        account == GroupEnd(s, org, 6)
        program == GroupEnd(s, account, try.account)
        activity == GroupEnd(s, program, 6)
        location == GroupEnd(s, activity, try.activity)
    IN [fund |-> fund, org |-> org, account |-> account, program |-> program,
        activity |-> activity, location |-> location,
        end |-> GroupEnd(s, location, try.location)]

\* the attempt matches the whole of s
Matches(s, try) ==
    LET at == Starts(s, try)
    IN /\ Len(s) >= 1
       /\ s[1] \in Charts
       /\ GroupMatches(s, at.fund, 6)
       /\ GroupMatches(s, at.org, 6)
       /\ GroupMatches(s, at.account, try.account)
       /\ GroupMatches(s, at.program, 6)
       /\ GroupMatches(s, at.activity, try.activity)
       /\ GroupMatches(s, at.location, try.location)
       /\ at.end = Len(s) + 1

\* match.groups of an attempt that matches
Groups(s, try) ==
    LET at == Starts(s, try)
    IN [chart |-> String(SubSeq(s, 1, 1)),
        fund |-> Group(s, at.fund, 6),
        org |-> Group(s, at.org, 6),
        account |-> Group(s, at.account, try.account),
        program |-> Group(s, at.program, 6),
        activity |-> Group(s, at.activity, try.activity),
        location |-> Group(s, at.location, try.location)]

\* cfopRegex.exec(s): the groups of the first attempt that matches, or null
cfopRegex(s) ==
    LET matching == {k \in (0..(Len(<<6, 5, 0>>) * Len(<<3, 6, 0>>) * Len(<<6, 0>>) - 1)) :
                        Matches(s, Try(k))}
    IN IF matching = {} THEN [kind |-> "null"]
       ELSE [kind |-> "match",
             groups |-> Groups(s, Try(CHOOSE k \in matching :
                                         \A j \in matching : k <= j))]

\* splitCfop(cfop)
splitCfop(c) ==
    LET match == cfopRegex(trim(c)) IN
    IF match = [kind |-> "null"] THEN Undefined
    ELSE LET g == match.groups
             keys == {"chart", "fund", "org", "program"}
                        \cup {k \in {"account", "activity", "location"} :
                            ((g[k]).kind = "string" /\ (g[k]).text # <<>>)}
         IN [kind |-> "parts", parts |-> [k \in keys |-> g[k].text]]

\* the strings splitCfop is called with: padding, a chart, and groups of
\* digits of the given lengths joined by a separator
Repeat(c, n) == [k \in 1..n |-> c]
Joined(sep, c, n) == IF n = 0 THEN <<>> ELSE sep \o Repeat(c, n)

InitCfop ==
    /\ InitApi
    /\ NoWatch(Skip, 3)
    /\ NoGuard
    /\ NoTerm(<<>>, FALSE, Clock(2026, 2))
    /\ \E c \in ({lead \o chart \o Joined(sep, "2", fund) \o Joined(sep, "3", 6) \o Joined(sep,
           "4", account) \o Joined(sep, "5", program) \o Joined(sep, "6", activity) \o Joined(sep,
           "7", location) \o trail : lead \in ({Repeat(" ", n) : n \in 0..MaxPadding}
           \cup {<<"-">>}), chart \in {<<"1">>, <<"4">>, <<"3">>}, sep \in {<<>>, <<"-">>, <<".">>,
           <<" ">>, <<"-", "-">>}, fund \in {5, 6}, account \in {0, 5, 6, 7}, program \in {0, 6},
           activity \in {0, 3, 4, 6}, location \in {0, 6}, trail \in ({Repeat(" ", n) :
           n \in 0..MaxPadding} \cup {<<"-">>})}) : NoCfop(c)
    /\ NoAuth(<<>>, [kind |-> "null"])
    /\ NoMsal({})
    /\ NoProgram(<<>>)

SplitCfop ==
    /\ parts = NotCalled
    /\ parts' = splitCfop(cfop)
    /\ UNCHANGED cfop
    /\ UNCHANGED <<apiVars, watchVars, guardVars, termVars, programVars, msalVars, authVars>>

NextCfop == SplitCfop

SpecCfop == InitCfop /\ [][NextCfop]_vars

\* ---------------------------------------------------------------- codex: programs
\* [A-Z] with the i flag
Letter == {"A", "B", "C", "D", "E", "F", "G", "H", "I", "J", "K", "L", "M", "N", "O", "P", "Q",
              "R", "S", "T", "U", "V", "W", "X", "Y", "Z"} \cup {"a", "b", "c", "d", "e", "f", "g",
              "h", "i", "j", "k", "l", "m", "n", "o", "p", "q", "r", "s", "t", "u", "v", "w", "x",
              "y", "z"}
\* [a-z0-9] with the i flag
Alphanumeric == Letter \cup Digit

\* (1[a-z0-9])([A-Z]{2})(\d{4}) matches at position i of s
ProgramMatchesAt(s, i) ==
    /\ i + 7 <= Len(s)
    /\ s[i] = "1"
    /\ s[i + 1] \in Alphanumeric
    /\ s[i + 2] \in Letter /\ s[i + 3] \in Letter
    /\ \A k \in (i + 4)..(i + 7) : s[k] \in Digit

\* (.*) from position i: the characters up to the next line terminator
RECURSIVE RestOfLine(_, _)
RestOfLine(s, i) ==
    IF i > Len(s) \/ s[i] \in {"\n", "\r"} THEN <<>>
    ELSE <<s[i]>> \o RestOfLine(s, i + 1)

\* the regular expression has no ^: exec tries every position of the input
MatchStarts(s) == {i \in 1..Len(s) : ProgramMatchesAt(s, i)}

\* programRegex.exec(s): the groups of the match at the first position
\* where there is one, or null
programRegex(s) ==
    IF MatchStarts(s) = {} THEN [kind |-> "null"]
    ELSE LET i == CHOOSE i \in MatchStarts(s) : \A j \in MatchStarts(s) : i <= j
         IN [kind |-> "match",
             campus |-> SubSeq(s, i, i + 1),
             college |-> SubSeq(s, i + 2, i + 3),
             major |-> SubSeq(s, i + 4, i + 7),
             degree |-> RestOfLine(s, i + 8)]

Object(fields) == [kind |-> "object", fields |-> fields]

\* splitProgramCode(programCode)
splitProgramCode(c) ==
    LET match == programRegex(c) IN
    IF match # [kind |-> "null"]
    THEN Object([programCampus |-> match.campus,
                 programCollege |-> match.college,
                 programMajor |-> match.major,
                 programDegree |-> match.degree])
    ELSE Object(<<>>)

\* parts.key || ""
OrEmpty(fields, key) == IF key \in DOMAIN fields THEN fields[key] ELSE <<>>

\* buildProgramCode(parts)
buildProgramCode(p) ==
    OrEmpty(p.fields, "programCampus") \o OrEmpty(p.fields, "programCollege")
        \o OrEmpty(p.fields, "programMajor") \o OrEmpty(p.fields, "programDegree")

InitProgram ==
    /\ InitApi
    /\ NoWatch(Skip, 3)
    /\ NoGuard
    /\ NoTerm(<<>>, FALSE, Clock(2026, 2))
    /\ NoCfop(<<>>)
    /\ NoAuth(<<>>, [kind |-> "null"])
    /\ NoMsal({})
    /\ \E c \in ({p \o campus \o college \o major \o degree : p \in (UNION {[1..n -> {"X", "1"}] :
           n \in 0..MaxPrefix}), campus \in {<<"1", "U">>, <<"1", "u">>, <<"1", "0">>, <<"2",
           "U">>, <<"1", "-">>, <<"1">>}, college \in {<<"L", "A">>, <<"L", "a">>, <<"L", "1">>,
           <<"K">>}, major \in {<<"0", "5", "0", "1">>, <<"0", "5", "0">>, <<"0", "5", "a", "1">>},
           degree \in {<<>>, <<"M", "S">>, <<"M", "s">>, <<"P", "H", "D">>, <<"M", "\n", "S">>}}
           \cup {<<>>, <<"X", "Y", "Z">>}) : NoProgram(c)

SplitProgramCode ==
    /\ programParts = NotCalled
    /\ programParts' = splitProgramCode(programCode)
    /\ UNCHANGED <<programCode, programBuilt>>
    /\ UNCHANGED <<apiVars, watchVars, guardVars, termVars, cfopVars, msalVars, authVars>>

BuildProgramCode ==
    /\ programParts # NotCalled
    /\ programBuilt = NotCalled
    /\ programBuilt' = String(buildProgramCode(programParts))
    /\ UNCHANGED <<programCode, programParts>>
    /\ UNCHANGED <<apiVars, watchVars, guardVars, termVars, cfopVars, msalVars, authVars>>

NextProgram == SplitProgramCode \/ BuildProgramCode

SpecProgram == InitProgram /\ [][NextProgram]_vars

\* ------------------------------------------------- useMsalStore (msal store)
Null == [kind |-> "null"]

\* Date.now() + 20000
Margin == 20000

\* String.prototype.toLowerCase on the letters the hosts are made of
LowerCase ==
    ("A" :> "a") @@ ("B" :> "b") @@ ("C" :> "c") @@ ("D" :> "d") @@ ("E" :> "e")
toLowerCase(s) ==
    [i \in 1..Len(s) |-> IF s[i] \in DOMAIN LowerCase THEN LowerCase[s[i]] ELSE s[i]]

\* new URL(url).host: the host name in lower case, followed by ":" and the
\* port unless the port is the default port of the scheme
URLHost(url) ==
    toLowerCase(url.hostname)
        \o (IF url.port \in {<<>>, <<"4", "4", "3">>} THEN <<>> ELSE <<":">> \o url.port)

\* accessToken.value && accessTokenExpires.value > Date.now() + 20000
CachedTokenUsable ==
    accessToken.s # "" /\ accessTokenExpires > dateNow + Margin

\* async function getAccessToken(): up to its return; the log entry tells
\* the time of the call, what the call resolved to (with the expiry recorded
\* for it) and the request the call started or joined
getAccessToken ==
    IF CachedTokenUsable
    THEN /\ tokenCalls' = Append(tokenCalls,
                [at |-> dateNow, from |-> "cache", request |-> 0, settled |-> TRUE,
                 value |-> accessToken, expires |-> accessTokenExpires])
         /\ UNCHANGED <<accessTokenPromise, loadRequests>>
    ELSE IF accessTokenPromise # Null
    THEN /\ tokenCalls' = Append(tokenCalls,
                [at |-> dateNow, from |-> "promise",
                 request |-> accessTokenPromise.request,
                 settled |-> accessTokenPromise.settled,
                 value |-> accessTokenPromise.value,
                 expires |-> accessTokenPromise.expires])
         /\ UNCHANGED <<accessTokenPromise, loadRequests>>
    ELSE /\ loadRequests' = Append(loadRequests, [at |-> dateNow, state |-> "pending"])
         /\ accessTokenPromise' =
                [kind |-> "promise", request |-> Len(loadRequests) + 1,
                 settled |-> FALSE, value |-> Null, expires |-> 0]
         /\ tokenCalls' = Append(tokenCalls,
                [at |-> dateNow, from |-> "load", request |-> Len(loadRequests) + 1,
                 settled |-> FALSE, value |-> Null, expires |-> 0])

InitMsal ==
    /\ InitApi
    /\ NoWatch(Skip, 3)
    /\ NoGuard
    /\ NoTerm(<<>>, FALSE, Clock(2026, 2))
    /\ NoCfop(<<>>)
    /\ NoAuth(<<>>, [kind |-> "null"])
    /\ NoProgram(<<>>)
    /\ \E hosts \in ({{}, {<<"a">>}, {<<"A">>, <<"b">>}, {<<"a", ":", "8">>}}) : NoMsal(hosts)

\* store.getAccessToken()
GetAccessToken ==
    /\ Len(tokenCalls) < MaxTokenCalls
    /\ getAccessToken
    /\ UNCHANGED <<accessToken, accessTokenExpires, allowedHosts, dateNow, providerCalls>>
    /\ UNCHANGED <<apiVars, watchVars, guardVars, termVars, cfopVars, programVars, authVars>>

\* resolve(v) of the promise made for request r: it settles every call that
\* returned this promise
resolve(r, v, exp) ==
    /\ accessTokenPromise' =
          IF accessTokenPromise # Null /\ accessTokenPromise.request = r
          THEN [accessTokenPromise EXCEPT !.settled = TRUE, !.value = v, !.expires = exp]
          ELSE accessTokenPromise
    /\ tokenCalls' =
          [i \in DOMAIN tokenCalls |->
              IF tokenCalls[i].request = r /\ ~tokenCalls[i].settled
              THEN [tokenCalls[i] EXCEPT !.settled = TRUE, !.value = v, !.expires = exp]
              ELSE tokenCalls[i]]

\* auth.loadApiToken() resolves with an authentication result, with or
\* without expiresOn
LoadApiTokenResolves(r, expiresOn) ==
    /\ loadRequests[r].state = "pending"
    /\ loadRequests' = [loadRequests EXCEPT ![r].state = "fulfilled"]
    /\ IF expiresOn # Null
       THEN /\ accessToken' = [kind |-> "string", s |-> "token", id |-> r]
            /\ accessTokenExpires' = expiresOn.time
       ELSE /\ accessToken' = [kind |-> "string", s |-> "", id |-> 0]
            /\ accessTokenExpires' = 0
    /\ resolve(r, accessToken', accessTokenExpires')
    /\ UNCHANGED <<allowedHosts, dateNow, providerCalls>>
    /\ UNCHANGED <<apiVars, watchVars, guardVars, termVars, cfopVars, programVars, authVars>>

\* auth.loadApiToken() rejects
LoadApiTokenRejects(r) ==
    /\ loadRequests[r].state = "pending"
    /\ loadRequests' = [loadRequests EXCEPT ![r].state = "rejected"]
    /\ resolve(r, Null, 0)
    /\ UNCHANGED <<accessToken, accessTokenExpires, allowedHosts, dateNow, providerCalls>>
    /\ UNCHANGED <<apiVars, watchVars, guardVars, termVars, cfopVars, programVars, authVars>>

AllowedAlways(host) == TRUE
\* allowedHosts.has(host)
Allowed(host) == host \in allowedHosts

\* authTokenProvider(url); a call that reached getAccessToken resolves to
\* what that call resolves to
AuthTokenProvider(url) ==
    /\ Len(providerCalls) < MaxProviderCalls
    /\ Len(tokenCalls) < MaxTokenCalls
    /\ IF url = [kind |-> "invalid"]
       THEN /\ providerCalls' = Append(providerCalls,
                   [url |-> url, outcome |-> "throws", call |-> 0])
            /\ UNCHANGED <<accessTokenPromise, loadRequests, tokenCalls>>
       ELSE IF ~Allowed(toLowerCase(URLHost(url)))
       THEN /\ providerCalls' = Append(providerCalls,
                   [url |-> url, outcome |-> "null", call |-> 0])
            /\ UNCHANGED <<accessTokenPromise, loadRequests, tokenCalls>>
       ELSE /\ getAccessToken
            /\ providerCalls' = Append(providerCalls,
                   [url |-> url, outcome |-> "token", call |-> Len(tokenCalls) + 1])
    /\ UNCHANGED <<accessToken, accessTokenExpires, allowedHosts, dateNow>>
    /\ UNCHANGED <<apiVars, watchVars, guardVars, termVars, cfopVars, programVars, authVars>>

\* time passes
TimePasses ==
    /\ dateNow < MaxTicks * (Margin \div 2)
    /\ dateNow' = dateNow + (Margin \div 2)
    /\ UNCHANGED <<accessToken, accessTokenExpires, accessTokenPromise, allowedHosts,
                   loadRequests, tokenCalls, providerCalls>>
    /\ UNCHANGED <<apiVars, watchVars, guardVars, termVars, cfopVars, programVars, authVars>>

NextMsal ==
    \/ GetAccessToken
    \/ \E url \in ({[kind |-> "url", hostname |-> h, port |-> p] : h \in {<<"a">>, <<"A">>,
           <<"b">>}, p \in {<<>>, <<"4", "4", "3">>, <<"8">>}} \cup {[kind |-> "invalid"]}) :
           AuthTokenProvider(url)
    \/ \E r \in DOMAIN loadRequests :
          \E expiresOn \in {([kind |-> "date", time |-> (dateNow + l)]) :
              l \in ({Margin + (Margin \div 2), Margin + 2 * (Margin \div 2)})} \cup {Null} :
              LoadApiTokenResolves(r, expiresOn)
    \/ \E r \in DOMAIN loadRequests : LoadApiTokenRejects(r)
    \/ TimePasses

SpecMsal == InitMsal /\ [][NextMsal]_vars

\* ---------------------------------------------------------- Auth (Auth.ts)

\* EventType, InteractionType and EventMessage of @azure/msal-browser
EventTypes ==
    {"INITIALIZE_START", "INITIALIZE_END", "ACCOUNT_ADDED", "ACCOUNT_REMOVED",
     "LOGIN_START", "LOGIN_SUCCESS", "LOGIN_FAILURE",
     "ACQUIRE_TOKEN_START", "ACQUIRE_TOKEN_SUCCESS", "ACQUIRE_TOKEN_FAILURE",
     "SSO_SILENT_START", "SSO_SILENT_SUCCESS", "SSO_SILENT_FAILURE",
     "HANDLE_REDIRECT_START", "HANDLE_REDIRECT_END",
     "LOGOUT_START", "LOGOUT_SUCCESS", "LOGOUT_FAILURE", "LOGOUT_END",
     "RESTORE_FROM_BFCACHE"}

\* InteractionStatus; "null" stands for the null that
\* getInteractionStatusFromEvent returns for no new status
InProgressStatuses == {"login", "logout", "acquireToken", "ssoSilent", "handleRedirect"}

\* EventMessageUtils.getInteractionStatusFromEvent(event, this.status)
getInteractionStatusFromEvent(message, currentStatus) ==
    LET interactive == message.interactionType \in {"redirect", "popup"}
        type == message.eventType
    IN CASE type = "LOGIN_START" -> "login"
         [] type = "SSO_SILENT_START" -> "ssoSilent"
         [] type = "ACQUIRE_TOKEN_START" ->
                IF interactive THEN "acquireToken" ELSE "null"
         [] type = "HANDLE_REDIRECT_START" -> "handleRedirect"
         [] type = "LOGOUT_START" -> "logout"
         [] type \in {"SSO_SILENT_SUCCESS", "SSO_SILENT_FAILURE"} ->
                IF currentStatus # "ssoSilent" THEN "null" ELSE "none"
         [] type = "LOGOUT_END" ->
                IF currentStatus # "logout" THEN "null" ELSE "none"
         [] type = "HANDLE_REDIRECT_END" ->
                IF currentStatus # "handleRedirect" THEN "null" ELSE "none"
         [] type \in {"LOGIN_SUCCESS", "LOGIN_FAILURE", "ACQUIRE_TOKEN_SUCCESS",
                      "ACQUIRE_TOKEN_FAILURE", "RESTORE_FROM_BFCACHE"} ->
                IF interactive /\ currentStatus \in {"login", "acquireToken"}
                THEN "none" ELSE "null"
         [] OTHER -> "null"

\* accountArraysAreEqual(arrayA, arrayB)
accountArraysAreEqual(arrayA, arrayB) ==
    /\ Len(arrayA) = Len(arrayB)
    /\ \A i \in DOMAIN arrayA : arrayA[i].username = arrayB[i].username

RedirectKept == [inProgress |-> FALSE, ready |-> TRUE, redirect |-> redirect]
\* case "none":
InteractionEnded == [inProgress |-> FALSE, ready |-> TRUE, redirect |-> FALSE]

\* switch (status): the flags after the switch
StatusFlags(st) ==
    CASE st = "startup" -> [inProgress |-> FALSE, ready |-> FALSE, redirect |-> FALSE]
      [] st \in {"login", "logout", "acquireToken", "ssoSilent"} -> [inProgress |-> TRUE,
             ready |-> FALSE, redirect |-> redirect]
      [] st = "handleRedirect" -> [inProgress |-> TRUE, ready |-> FALSE, redirect |-> TRUE]
      [] st = "none" -> InteractionEnded
      [] OTHER -> [inProgress |-> inProgress, ready |-> ready, redirect |-> redirect]

InitAuth ==
    /\ InitApi
    /\ NoWatch(Skip, 3)
    /\ NoGuard
    /\ NoTerm(<<>>, FALSE, Clock(2026, 2))
    /\ NoCfop(<<>>)
    /\ NoProgram(<<>>)
    /\ NoMsal({})
    /\ \E cached \in ({<<>>, <<([kind |-> "account", username |-> "u1"])>>}) :
          \E active \in {cached[i] : i \in DOMAIN cached} \cup {Null} : NoAuth(cached, active)

\* what a call of Auth.initialize is recorded as: whether it started
\* msalInstance.initialize(), the state of the promise it returned and, when
\* that promise resolved, how far the instance was
InitializeCall(started, state) ==
    [started |-> started, state |-> state,
     initialized |-> msalInstance.initialize = "done",
     redirectHandled |-> msalInstance.handleRedirect = "done"]

\* async initialize(): up to the await, or to the end when the condition
\* of the if is false
Initialize ==
    /\ Len(initializeCalls) < MaxInitializeCalls
    /\ IF ~inProgress /\ ~ready /\ ~initializing
       THEN /\ initializing' = TRUE
            /\ msalInstance' = [msalInstance EXCEPT
                                   !.initialize = "pending",
                                   !.initializeStarts = @ + 1]
            /\ initializeCalls' = Append(initializeCalls, InitializeCall(TRUE, "pending"))
       ELSE /\ initializeCalls' = Append(initializeCalls, InitializeCall(FALSE, "resolved"))
            /\ UNCHANGED <<initializing, msalInstance>>
    /\ UNCHANGED <<status, inProgress, ready, redirect, accounts, accountValue,
                   event, eventCount>>
    /\ UNCHANGED <<apiVars, watchVars, guardVars, termVars, cfopVars, programVars, msalVars>>

\* msalInstance.initialize() resolves: the function handed to then
MsalInitializeResolves ==
    /\ msalInstance.initialize = "pending"
    /\ msalInstance' = [msalInstance EXCEPT !.initialize = "done",
                                            !.handleRedirect = "pending"]
    /\ IF msalInstance.activeAccount # Null
       THEN /\ accounts' = msalInstance.accounts
            /\ accountValue' = msalInstance.activeAccount
       ELSE UNCHANGED <<accounts, accountValue>>
    /\ UNCHANGED <<status, inProgress, ready, redirect, initializing, initializeCalls,
                   event, eventCount>>
    /\ UNCHANGED <<apiVars, watchVars, guardVars, termVars, cfopVars, programVars, msalVars>>

\* the promise of the call that awaits the chain settles
Settles(state) ==
    [i \in DOMAIN initializeCalls |->
        IF initializeCalls[i].state = "pending"
        THEN [initializeCalls[i] EXCEPT
                 !.state = state,
                 !.initialized = msalInstance'.initialize = "done",
                 !.redirectHandled = msalInstance'.handleRedirect = "done"]
        ELSE initializeCalls[i]]

\* msalInstance.initialize() rejects: the await throws
MsalInitializeRejects ==
    /\ msalInstance.initialize = "pending"
    /\ msalInstance' = [msalInstance EXCEPT !.initialize = "failed"]
    /\ initializeCalls' = Settles("rejected")
    /\ UNCHANGED <<status, inProgress, ready, redirect, initializing, accounts,
                   accountValue, event, eventCount>>
    /\ UNCHANGED <<apiVars, watchVars, guardVars, termVars, cfopVars, programVars, msalVars>>

\* msalInstance.handleRedirectPromise() resolves, or rejects and is caught
HandleRedirectPromiseSettles ==
    /\ msalInstance.handleRedirect = "pending"
    /\ msalInstance' = [msalInstance EXCEPT !.handleRedirect = "done"]
    /\ initializeCalls' = Settles("resolved")
    /\ UNCHANGED <<status, inProgress, ready, redirect, initializing, accounts,
                   accountValue, event, eventCount>>
    /\ UNCHANGED <<apiVars, watchVars, guardVars, termVars, cfopVars, programVars, msalVars>>

\* the callback handed to addEventCallback, called with message while the
\* account cache of the instance holds cached
EventCallback(message, cached) ==
    LET active == IF message.eventType = "LOGIN_SUCCESS" /\ message.payload # Null
                  THEN message.payload
                  ELSE msalInstance.activeAccount
        changed == /\ message.eventType \in {"ACCOUNT_ADDED", "ACCOUNT_REMOVED", "LOGIN_SUCCESS",
                          "SSO_SILENT_SUCCESS", "HANDLE_REDIRECT_END", "LOGIN_FAILURE",
                          "SSO_SILENT_FAILURE", "LOGOUT_END", "ACQUIRE_TOKEN_SUCCESS",
                          "ACQUIRE_TOKEN_FAILURE"}
                   /\ ~accountArraysAreEqual(cached, accounts)
        st == getInteractionStatusFromEvent(message, status)
    IN /\ eventCount < MaxEvents
       /\ msalInstance.initialize # "idle"
       /\ \/ msalInstance.initialize = "done"
          \/ message.eventType \in {"INITIALIZE_START", "INITIALIZE_END"}
       /\ eventCount' = eventCount + 1
       /\ event' = [kind |-> "event", message |-> message, yielded |-> st]
       /\ msalInstance' = [msalInstance EXCEPT !.accounts = cached,
                                               !.activeAccount = active]
       /\ accounts' = IF changed THEN cached ELSE accounts
       /\ accountValue' = IF ~changed THEN accountValue
                          ELSE IF Len(cached) > 0 THEN cached[1] ELSE Null
       /\ inProgress' = StatusFlags(st).inProgress
       /\ ready' = StatusFlags(st).ready
       /\ redirect' = StatusFlags(st).redirect
       /\ status' = IF st # "null" THEN st ELSE status
       /\ UNCHANGED <<initializing, initializeCalls>>
       /\ UNCHANGED <<apiVars, watchVars, guardVars, termVars, cfopVars, programVars, msalVars>>

NextAuth ==
    \/ Initialize
    \/ MsalInitializeResolves
    \/ MsalInitializeRejects
    \/ HandleRedirectPromiseSettles
    \/ \E cached \in ({<<>>, <<([kind |-> "account", username |-> "u1"])>>}) :
          \E message \in ({[kind |-> "event", eventType |-> t, interactionType |-> i,
              payload |-> Null] : t \in EventTypes, i \in {"redirect", "popup", "silent"}}
              \cup {[kind |-> "event", eventType |-> "LOGIN_SUCCESS", interactionType |-> i,
              payload |-> a] : i \in {"redirect", "popup", "silent"}, a \in {cached[k] :
              k \in DOMAIN cached}}) : EventCallback(message, cached)

SpecAuth == InitAuth /\ [][NextAuth]_vars

\* ---------------------------------------------------------------- properties
Invocations == 1..Len(calls)

\* number of trigger calls on hook made by invocation i
Fired(hook, i) ==
    LET es == {e \in BagToSet(events) : e.hook = hook /\ e.by = i}
    IN  IF es = {} THEN 0
        ELSE LET S[T \in SUBSET es] ==
                     IF T = {} THEN 0
                     ELSE LET x == CHOOSE y \in T : TRUE
                          IN  CopiesIn(x, events) + S[T \ {x}]
             IN S[es]

FinallyStep(i) == calls[i].pc \in {"resolved", "rejected"}
                  /\ calls'[i].pc \in {"finishedOk", "finishedErr"}

ResultOf(i) == FnResult(<<"execute", i>>, calls[i].args)
ErrorOf(i) == FnError(<<"execute", i>>)

\* C1: a success that arrives after a newer execute has started leaves
\* response alone and notifies nobody; a success of the invocation that is
\* still the most recent one sets response to its result and fires on-success
\* exactly once with (result, original arguments).
C1_StaleSuccessSuppressed ==
    /\ [][\A i \in Invocations : (calls[i].pc = "pending" /\ calls'[i].pc = "resolved") =>
            IF calls[i].currentExecuteCounter # executeCounter
            THEN response' = response /\ events' = events
            ELSE /\ response' = ResultOf(i)
                 /\ events' = events (+) SetToBag({(trigger("success", i, [kind |-> "payload",
                        result |-> ResultOf(i), args |-> calls[i].args], Refs(ResultOf(i),
                        error)))})]_vars
    /\ [](\A i \in Invocations : Fired("success", i) <= 1)

\* execute(3), execute(5), the first resolved after the second had started
\* and the second resolved: one notification, for the second
C1_Witness ==
    /\ Len(calls) = 2
    /\ calls[1].args = <<3>> /\ calls[2].args = <<5>>
    /\ calls[1].pc = "finishedOk" /\ calls[2].pc = "finishedOk"
    /\ response = ResultOf(2)
    /\ Fired("success", 1) = 0 /\ Fired("success", 2) = 1
    /\ \E e \in BagToSet(events) :
          e.hook = "success" /\ e.deliveries = 1 /\ e.payload.args = <<5>>

\* C2: every failing invocation, superseded or not, stores its failure value
\* in error and fires on-error exactly once with that value.
C2_ErrorAlwaysLands ==
    /\ [][\A i \in Invocations : (calls[i].pc = "pending" /\ calls'[i].pc = "rejected") =>
            /\ error' = ErrorOf(i)
            /\ events' = events (+) SetToBag({trigger("error", i, ErrorOf(i),
                                                      Refs(response, error))})]_vars
    /\ [](\A i \in Invocations :
            Fired("error", i) = IF calls[i].pc \in {"rejected", "finishedErr"} THEN 1 ELSE 0)

\* a superseded invocation failed and its failure is what error holds
C2_Witness ==
    /\ Len(calls) = 2
    /\ calls[1].pc = "rejected"
    /\ error = ErrorOf(1)
    /\ Fired("error", 1) = 1
    /\ \E e \in BagToSet(events) : e.hook = "error" /\ e.by = 1 /\ e.deliveries = 1

\* C3: an invocation has fired on-finished exactly once when its finally
\* continuation has run and never before, whatever its outcome; N finished
\* invocations account for exactly N on-finished broadcasts.
C3_FinishedOncePerInvocation ==
    /\ \A i \in Invocations :
          Fired("finally", i) = IF calls[i].pc \in {"finishedOk", "finishedErr"} THEN 1 ELSE 0
    /\ BagCardinality(events) =
          Cardinality({i \in Invocations : Fired("success", i) = 1})
          + Cardinality({i \in Invocations : Fired("error", i) = 1})
          + Cardinality({i \in Invocations : calls[i].pc \in {"finishedOk", "finishedErr"}})

\* a superseded success, and a failure, each finished once
C3_Witness ==
    /\ Len(calls) = 2
    /\ calls[1].pc = "finishedOk" /\ Fired("success", 1) = 0
    /\ calls[2].pc = "finishedErr"
    /\ Fired("finally", 1) = 1 /\ Fired("finally", 2) = 1

\* C4: executeCounter starts at 0, counts the execute calls one by one, is
\* changed by nothing else, and hands every invocation its own value.
C4_SequenceMonotonicity ==
    /\ [](executeCounter = Len(calls))
    /\ [](\A i \in Invocations : calls[i].currentExecuteCounter = i)
    /\ [][IF Len(calls') = Len(calls) + 1
          THEN executeCounter' = executeCounter + 1
          ELSE executeCounter' = executeCounter]_vars

\* two overlapping invocations, a direct call and a registration
C4_Witness ==
    /\ executeCounter = 2
    /\ calls[1].pc = "pending" /\ calls[2].pc = "pending"
    /\ Len(direct) = 1
    /\ listeners["success"] = 1

\* C5: a step of executeDirect (the call or its settling) changes none of
\* executeCounter, isLoading, isFinished, response, error and triggers no
\* hook; the caller's promise settles exactly as fn's promise did.
C5_DirectCallIsolation ==
    /\ [][direct' # direct =>
            UNCHANGED <<executeCounter, isLoading, isFinished, response, error, events>>]_vars
    /\ [](\A k \in 1..Len(direct) :
            /\ direct[k].promise = "rejected" => direct[k].value = FnError(<<"direct", k>>)
            /\ direct[k].promise = "fulfilled" =>
                   direct[k].value = FnResult(<<"direct", k>>, direct[k].args))

\* a direct call failed while an execute invocation was in flight
C5_Witness ==
    /\ Len(direct) = 1 /\ direct[1].promise = "rejected"
    /\ direct[1].value = FnError(<<"direct", 1>>)
    /\ executeCounter = 1 /\ calls[1].pc = "pending" /\ isLoading

C7_FinishedNegatesLoadingAlways == isFinished = ~isLoading

\* C7: once execute has been called isFinished is the negation of isLoading;
\* a freshly constructed wrapper has isLoading = false and isFinished = false.
C7_FinishedNegatesLoading ==
    IF executeCounter = 0
    THEN ~isLoading /\ ~isFinished
    ELSE isFinished = ~isLoading

\* the most recent invocation has finished
C7_Witness ==
    /\ executeCounter = 2
    /\ calls[2].pc = "finishedOk"
    /\ isFinished /\ ~isLoading

\* C8: once the promise returned by execute is resolved, and no other execute
\* has started, the operation has settled and its continuations have run:
\* isLoading is false and response holds the result of a success.
C8_AwaitObservesCompletion ==
    \A i \in Invocations :
        (calls[i].promise = "fulfilled" /\ executeCounter = i) =>
            /\ calls[i].pc \in {"finishedOk", "finishedErr"}
            /\ ~isLoading
            /\ calls[i].pc = "finishedOk" => response = ResultOf(i)

\* C9 as stated: isLoading is true as long as any invocation is in flight.
C9_LoadingWhileAnyInFlight ==
    \A i \in Invocations :
        calls[i].pc \notin {"finishedOk", "finishedErr"} => isLoading

\* C9: isLoading is true from the start of the most recently started
\* invocation until that invocation's finally continuation has run.
C9_LoadingWhileLatestInFlight ==
    executeCounter > 0 /\ calls[executeCounter].pc \notin {"finishedOk", "finishedErr"}
        => isLoading

\* an older invocation has finished, the newest is still in flight
C9_Witness ==
    /\ executeCounter = 2
    /\ calls[1].pc = "finishedErr"
    /\ calls[2].pc = "pending"
    /\ isLoading

\* C10 as stated: when on-finished fires for a failed invocation, error holds
\* the most recent failure value, under every interleaving.
C10_FinishedSeesLastFailure ==
    [][\A i \in Invocations :
          (FinallyStep(i) /\ calls[i].pc = "rejected") => error' = lastFailure.value]_vars

\* C10: when on-finished fires for a failed invocation, error holds the most
\* recent failure value unless an execute call has started since that failure
\* was caught, in which case error is undefined.
C10_FinishedSeesLastFailureUnlessCleared ==
    [][\A i \in Invocations :
          (FinallyStep(i) /\ calls[i].pc = "rejected") =>
              error' = IF lastFailure.executeSince THEN Undefined ELSE lastFailure.value]_vars

\* a failed invocation has finished after a newer invocation started between
\* its catch and its finally, and error was undefined at that moment
C10_Witness ==
    /\ Len(calls) = 2
    /\ calls[1].pc = "finishedErr"
    /\ calls[2].pc = "pending"
    /\ lastFailure = [value |-> ErrorOf(1), executeSince |-> TRUE]
    /\ error = Undefined

\* C11: once the operation of the most recently started invocation has
\* settled, isLoading becomes false and isFinished true unless another execute
\* is called first; as long as that operation has not settled isLoading is
\* true, whatever the older invocations do.
C11_LoadingLiveness ==
    /\ \A i \in 1..MaxExecutes :
          (executeCounter = i /\ calls[i].pc \in {"resolved", "rejected"})
              ~> ((~isLoading /\ isFinished) \/ executeCounter > i)
    /\ [](executeCounter > 0 /\ calls[executeCounter].pc = "pending"
              => isLoading /\ ~isFinished)

\* the newest invocation has finished while an older one never settled
C11_Witness ==
    /\ executeCounter = 2
    /\ calls[1].pc = "pending"
    /\ calls[2].pc = "finishedOk"
    /\ ~isLoading /\ isFinished

\* ---- apiWatch

\* the arguments of the last exec call made before the k-th call of run
Dispatched(k) == {j \in 1..(k - 1) : runLog[j].exec}
LastDispatched(k) ==
    runLog[CHOOSE j \in Dispatched(k) : \A i \in Dispatched(k) : i <= j].arg

\* C12: a non-skip argument list that is deeply equal to the one of the last
\* exec call is not dispatched again; of two consecutive deliveries of
\* deep-equal lists only the first can call exec.
C12_Deduplication ==
    /\ \A k \in (1..Len(runLog)) :
          (runLog[k].arg # Skip /\ Dispatched(k) # {} /\ runLog[k].arg = LastDispatched(k))
              => ~runLog[k].exec
    /\ \A k \in (1..Len(runLog)) :
          (k > 1 /\ runLog[k].arg # Skip /\ runLog[k].arg = runLog[k - 1].arg)
              => ~runLog[k].exec

\* the same argument list was delivered twice and dispatched once
C12_Witness ==
    /\ Len(runLog) = 2
    /\ runLog[1].arg = Args(<<Prim(5)>>) /\ runLog[1].exec
    /\ runLog[2].arg = Args(<<Prim(5)>>) /\ ~runLog[2].exec

\* C13: a delivery of undefined calls exec not and leaves hasExecuted and
\* lastArgs as they were.
C13_SkipSentinel ==
    [][((Len(runLog') = Len(runLog) + 1) /\ (runLog'[Len(runLog')]).arg = Skip) =>
          (~(runLog'[Len(runLog')]).exec /\ UNCHANGED <<hasExecuted, lastArgs>>)]_vars

\* undefined was delivered after a dispatch and the dedup state survived
C13_Witness ==
    /\ Len(runLog) = 2
    /\ runLog[1].exec
    /\ runLog[2].arg = Skip /\ ~runLog[2].exec
    /\ hasExecuted /\ lastArgs = runLog[1].arg

\* C14 as stated: with or without debounce, when the first change of the
\* watched values happens after a registration that found a non-skip argument
\* list, exec has been called exactly once, with that list.
C14_EagerFirstPassAlways ==
    [][(changes = 0 /\ changes' = 1 /\ watch.phase # "unregistered" /\ watched # Skip) =>
          /\ Len(runLog) = 1
          /\ runLog[1].exec
          /\ runLog[1].arg = Snapshot(watched, filterObject)]_vars

\* C14: without debounce, registration itself calls exec once with the
\* argument list the watcher yields; with debounce registration calls nothing
\* and starts the debounce window, at whose end exec is called once with that
\* list if nothing changed meanwhile; the first non-skip value handed to run
\* is always dispatched.
C14_EagerFirstPass ==
    /\ [][(watch.phase = "unregistered" /\ watch'.phase = "active") =>
            IF watch'.debounce
            THEN runLog' = <<>> /\ watch'.timer.arg = watched
            ELSE runLog' = <<[arg |-> Snapshot(watched, filterObject),
                              exec |-> (watched # Skip), phase |-> "unregistered"]>>]_vars
    /\ [][((watch.timer # [kind |-> "none"] /\ watch'.timer = [kind |-> "none"]) /\ changes = 0 /\ watched # Skip) =>
            /\ Len(runLog') = 1
            /\ runLog'[1].exec
            /\ runLog'[1].arg = Snapshot(watched, filterObject)]_vars
    /\ [](\A k \in (1..Len(runLog)) :
            (runLog[k].arg # Skip /\ \A j \in 1..(k - 1) : runLog[j].arg = Skip)
                => runLog[k].exec)

\* registered with debounce: nothing changed during the window and exec was
\* called at its end
C14_Witness ==
    /\ watch.phase = "active" /\ watch.debounce /\ watch.timer = [kind |-> "none"]
    /\ changes = 0
    /\ Len(runLog) = 1 /\ runLog[1].exec
    /\ runLog[1].arg = Args(<<Prim(3)>>)

\* C15: lastArgs holds what the arguments of the last exec call held when
\* the call was made, whatever happened to the objects since; a delivery is
\* dispatched exactly when it differs from that.
C15_IndependentCopy ==
    /\ hasExecuted =>
          /\ Dispatched(Len(runLog) + 1) # {}
          /\ Snapshot(lastArgs, filterObject) = LastDispatched(Len(runLog) + 1)
    /\ ~hasExecuted => lastArgs = Undefined /\ Dispatched(Len(runLog) + 1) = {}
    /\ \A k \in (1..Len(runLog)) :
          (runLog[k].arg # Skip /\ Dispatched(k) # {} /\ runLog[k].arg # LastDispatched(k))
              => runLog[k].exec

\* the object was dispatched, mutated in place, delivered and dispatched again
C15_Witness ==
    /\ Len(runLog) = 2
    /\ runLog[1].arg = Args(<<[kind |-> "object", q |-> 3]>>) /\ runLog[1].exec
    /\ runLog[2].arg = Args(<<[kind |-> "object", q |-> 5]>>) /\ runLog[2].exec
    /\ lastArgs = runLog[2].arg

\* C16 as stated: the end of a debounce window that collapsed several
\* deliveries makes one exec call with the argument list of the last change.
C16_DebounceCollapseAlways ==
    [][((watch.timer # [kind |-> "none"] /\ watch'.timer = [kind |-> "none"]) /\ watch.timer.burst >= 2) =>
          runLog' = Append(runLog, [arg |-> Snapshot(watch.oldValue, filterObject),
                                    exec |-> TRUE, phase |-> watch.phase])]_vars

\* C16: with debounce, deliveries inside the window call nothing; the end of
\* the window makes one call of run with the value of the last change, which
\* calls exec once unless that value is undefined or deeply equal to the
\* argument list of the last exec call.
C16_DebounceCollapse ==
    /\ [][(watch'.debounce /\ ~(watch.timer # [kind |-> "none"] /\ watch'.timer = [kind |-> "none"])) => runLog' = runLog]_vars
    /\ [][((watch.timer # [kind |-> "none"] /\ watch'.timer = [kind |-> "none"]) /\ watch.timer.burst >= 2) =>
            runLog' = Append(runLog,
               [arg |-> Snapshot(watch.oldValue, filterObject),
                exec |-> /\ watch.oldValue # Skip
                         /\ (~hasExecuted \/ Snapshot(watch.oldValue, filterObject)
                                               # Snapshot(lastArgs, filterObject)),
                phase |-> watch.phase])]_vars

\* registration and two flushed changes ended in one exec call, for the last
C16_Witness ==
    /\ watch.debounce /\ watch.timer = [kind |-> "none"] /\ ~watch.queued
    /\ changes = 2
    /\ watch.oldValue = Args(<<Prim(5)>>) /\ watched = watch.oldValue
    /\ Len(runLog) = 1
    /\ runLog[1].exec /\ runLog[1].arg = Args(<<Prim(5)>>)

\* C17: no exec call is made once the scope of the registration is disposed.
C17_NoExecAfterTeardown ==
    \A k \in (1..Len(runLog)) : runLog[k].exec => runLog[k].phase # "stopped"

\* ---- authGuard
\* C18: a navigation to a route without meta.requiresAuth is let through
\* without the auth store being consulted; a navigation to a route with
\* meta.requiresAuth is let through only if isAuthenticated resolved true, and
\* is otherwise redirected to '/'.
C18_AuthGuard ==
    guard.pc = "returned" =>
        IF to.meta.requiresAuth = True
        THEN /\ guard.consulted
             /\ guard.returned = True =>
                   (guard.shouldProceed = True /\ authStore.isAuthenticated)
             /\ guard.returned # True =>
                   (guard.returned = Path("/") /\ guard.shouldProceed = False)
        ELSE /\ guard.returned = True
             /\ ~guard.consulted
             /\ guard.shouldProceed = NotCalled

\* a protected navigation went through init, handleRedirect and login without
\* the store becoming authenticated and was redirected to '/'
C18_Witness ==
    /\ guard.pc = "returned"
    /\ to.meta.requiresAuth = True /\ to.fullPath = "/protected"
    /\ authStore.login = <<"/protected">>
    /\ ~authStore.isAuthenticated
    /\ guard.returned = Path("/")

\* ---- parseTermCode
\* the form 1YYYYX with X in {1, 5, 8}
HasTermForm(c) ==
    /\ Len(c) = 6
    /\ c[1] = "1"
    /\ {c[2], c[3], c[4], c[5]} \subseteq Digit
    /\ c[6] \in {"1", "5", "8"}

\* the number YYYY stands for
YearOf(c) ==
    1000 * DigitValue(c[2]) + 100 * DigitValue(c[3]) + 10 * DigitValue(c[4])
        + DigitValue(c[5])

\* the documented terms by term indicator
TermTable ==
    [x \in {"1", "5", "8"} |->
        CASE x = "1" -> [month |-> 1, name |-> <<"S", "p", "r", "i", "n", "g">>,
            gradMonthName |-> <<"M", "a", "y">>,
                         short |-> <<"S", "P">>]
          [] x = "5" -> [month |-> 5, name |-> <<"S", "u", "m", "m", "e", "r">>,
                 gradMonthName |-> <<"A", "u", "g">>,
                         short |-> <<"S", "U">>]
          [] x = "8" -> [month |-> 8, name |-> <<"F", "a", "l", "l">>, gradMonthName |-> <<"D", "e", "c">>,
                         short |-> <<"F", "A">>]]

\* the last two digits of the decimal numeral of a year
LastTwoDigits(year) ==
    LET numeral == toString(year)
    IN IF Len(numeral) >= 2
       THEN <<numeral[Len(numeral) - 1], numeral[Len(numeral)]>>
       ELSE numeral

\* the term the documentation gives for a code of the form 1YYYYX
DocumentedTerm(c) ==
    LET year == YearOf(c)
        row == TermTable[c[6]]
    IN [kind |-> "term",
        year |-> year,
        month |-> row.month,
        name |-> row.name,
        gradMonthName |-> row.gradMonthName,
        code |-> c,
        academicYear |-> IF row.name = <<"F", "a", "l", "l">>
                         THEN toString(year) \o <<"-">> \o toString(year + 1)
                         ELSE toString(year - 1) \o <<"-">> \o toString(year),
        termName |-> row.name \o <<" ">> \o toString(year),
        shortTermName |-> row.short \o <<" ">> \o LastTwoDigits(year)]

DigitsAfter(t, from, n) ==
    {q + n : q \in {p \in from \cup {p + 1 : p \in {r \in from : r <= Len(t) /\ t[r] \in {"-", ".", " "}}} :
                      p + n - 1 <= Len(t) /\ \A k \in p..(p + n - 1) : t[k] \in Digit}}
OptionalDigitsAfter(t, from, n) == IF n = 0 THEN from ELSE DigitsAfter(t, from, n)

\* t consists of the segments, the chart ending before one of the positions
\* in afterChart and the optional segments being as in shape
ConsistsOf(t, afterChart, shape) ==
    (Len(t) + 1) \in
        OptionalDigitsAfter(t,
          OptionalDigitsAfter(t,
            DigitsAfter(t,
              OptionalDigitsAfter(t,
                DigitsAfter(t, DigitsAfter(t, afterChart, 6), 6),
                shape.account),
              6),
            shape.activity),
          shape.location)

\* the chart is the first character or follows a separator that is the first
ChartAfterSeparator(t) ==
    (IF Len(t) >= 1 /\ t[1] \in {"1", "2", "4", "9"} THEN {2} ELSE {}) \cup
        (IF Len(t) >= 2 /\ t[1] \in {"-", ".", " "} /\ t[2] \in {"1", "2", "4", "9"}
         THEN {3} ELSE {})

IsDigit(c) == c \in Digit

\* the object p has the segments of shape as its keys and their digits, in
\* the order of t, as its values
Carries(p, t, shape) ==
    /\ DOMAIN p = ({"chart", "fund", "org", "program"} \cup (IF shape.account > 0 THEN {"account"}
           ELSE {}) \cup (IF shape.activity > 0 THEN {"activity"} ELSE {})
           \cup (IF shape.location > 0 THEN {"location"} ELSE {}))
    /\ Len(p.chart) = 1 /\ Len(p.fund) = 6 /\ Len(p.org) = 6 /\ Len(p.program) = 6
    /\ Len((IF "account" \in DOMAIN p THEN p["account"] ELSE <<>>)) = shape.account
    /\ Len((IF "activity" \in DOMAIN p THEN p["activity"] ELSE <<>>)) = shape.activity
    /\ Len((IF "location" \in DOMAIN p THEN p["location"] ELSE <<>>)) = shape.location
    /\ p.chart \o p.fund \o p.org \o (IF "account" \in DOMAIN p THEN p["account"] ELSE <<>>) \o p.program
          \o (IF "activity" \in DOMAIN p THEN p["activity"] ELSE <<>>)
              \o (IF "location" \in DOMAIN p THEN p["location"] ELSE <<>>) = SelectSeq(t, IsDigit)

\* C20 as stated: every segment, the chart included, may be preceded by one
\* separator.
C20_SplitCfopAnySegment ==
    parts # NotCalled =>
        LET t == trim(cfop) IN
        IF \E shape \in [account : {0, 5, 6}, activity : {0, 3, 6}, location : {0, 6}] :
            ConsistsOf(t, ChartAfterSeparator(t), shape)
        THEN /\ parts.kind = "parts"
             /\ \E shape \in [account : {0, 5, 6}, activity : {0, 3, 6}, location : {0, 6}] :
                   /\ ConsistsOf(t, ChartAfterSeparator(t), shape)
                   /\ Carries(parts.parts, t, shape)
        ELSE parts = Undefined

\* C20: splitCfop returns an object exactly when the trimmed input is a chart
\* followed by fund, org, optional account, program, optional activity and
\* optional location, each of these optionally preceded by one separator; the
\* object has exactly the segments of such a reading; otherwise the result is
\* undefined.
C20_SplitCfop ==
    parts # NotCalled =>
        LET t == trim(cfop) IN
        IF \E shape \in [account : {0, 5, 6}, activity : {0, 3, 6}, location : {0, 6}] :
            ConsistsOf(t, (IF Len(t) >= 1 /\ t[1] \in {"1", "2", "4", "9"} THEN {2} ELSE {}), shape)
        THEN /\ parts.kind = "parts"
             /\ \E shape \in [account : {0, 5, 6}, activity : {0, 3, 6}, location : {0, 6}] :
                   /\ ConsistsOf(t, (IF Len(t) >= 1 /\ t[1] \in {"1", "2", "4", "9"} THEN {2} ELSE {}), shape)
                   /\ Carries(parts.parts, t, shape)
        ELSE parts = Undefined

\* a string with a five-digit account and a three-digit activity was split
C20_Witness ==
    /\ parts # NotCalled
    /\ parts.kind = "parts"
    /\ DOMAIN parts.parts = {"chart", "fund", "org", "account", "program", "activity"}
    /\ parts.parts.account = <<"4", "4", "4", "4", "4">>
    /\ parts.parts.activity = <<"6", "6", "6">>
    /\ cfop[1] = " "

\* ---- splitProgramCode
\* the whole of c is a campus, a college, a major and a degree
HasProgramForm(c) ==
    /\ Len(c) >= 8
    /\ c[1] = "1"
    /\ c[2] \in Alphanumeric
    /\ {c[3], c[4]} \subseteq Letter
    /\ {c[5], c[6], c[7], c[8]} \subseteq Digit

\* C21: splitProgramCode returns the four components exactly when the whole
\* input is campus, college, major and degree, and {} otherwise; when it
\* returns components buildProgramCode of them is the input.
C21_ProgramCodeRoundTrip ==
    /\ programParts # NotCalled =>
          IF HasProgramForm(programCode)
          THEN programParts =
                  Object([programCampus |-> SubSeq(programCode, 1, 2),
                          programCollege |-> SubSeq(programCode, 3, 4),
                          programMajor |-> SubSeq(programCode, 5, 8),
                          programDegree |-> SubSeq(programCode, 9, Len(programCode))])
          ELSE programParts = Object(<<>>)
    /\ (programBuilt # NotCalled /\ programParts # Object(<<>>)) =>
          programBuilt = String(programCode)

\* ---- isAuthenticated

\* C22: isAuthenticated awaits initPromise, then handleRedirect, then
\* login(redirectStartPage), each later step only if the earlier one ended
\* without the store being authenticated; it returns true at the first step
\* after which the store is authenticated, and false if none is or if
\* getAuthStore or any step throws or rejects.
C22_IsAuthenticatedProtocol ==
    LET trace == guard.trace IN
    /\ Len(trace) <= Len(<<"initPromise", "handleRedirect", "login">>)
    /\ \A k \in 1..Len(trace) : trace[k].step = <<"initPromise", "handleRedirect", "login">>[k]
    /\ \A k \in 1..(Len(trace) - 1) : trace[k].ok /\ ~trace[k].auth
    /\ guard.pc \in {"initPromise", "handleRedirect", "login"} =>
          /\ guard.pc = <<"initPromise", "handleRedirect", "login">>[Len(trace) + 1]
          /\ \A k \in 1..Len(trace) : trace[k].ok /\ ~trace[k].auth
          /\ guard.shouldProceed = NotCalled
    /\ (guard.pc \in {"handleRedirect", "login"} \/ trace # <<>>) => guard.consulted
    /\ (trace # <<>> /\ trace[Len(trace)].step = "login") =>
          (authStore.login # <<>> /\ authStore.login[Len(authStore.login)] = to.fullPath)
    /\ (guard.consulted /\ guard.pc \in {"settled", "returned"}) =>
          /\ guard.shouldProceed \in {True, False}
          /\ guard.shouldProceed = True <=>
                (trace # <<>> /\ trace[Len(trace)].ok /\ trace[Len(trace)].auth)
          /\ guard.shouldProceed = False =>
                \/ trace = <<>>
                \/ ~trace[Len(trace)].ok
                \/ (Len(trace) = Len(<<"initPromise", "handleRedirect", "login">>) /\ ~trace[Len(trace)].auth)

\* handleRedirect authenticated the store: login was not called and
\* isAuthenticated resolved true
C22_Witness ==
    /\ guard.pc = "settled"
    /\ Len(guard.trace) = 2
    /\ guard.trace[2] = [step |-> "handleRedirect", ok |-> TRUE, auth |-> TRUE]
    /\ guard.shouldProceed = True
    /\ authStore.login = <<>>

\* C26: a delivery of undefined between two deliveries of equal argument lists
\* does not make the second one dispatch: after A was dispatched and only
\* undefined was delivered since, a delivery equal to A calls exec not; exec is
\* called only for a delivery that is not undefined and that is the first
\* dispatch or differs from the last dispatched argument list.
C26_SkipKeepsDeduplication ==
    /\ \A i \in (1..Len(runLog)) : \A k \in (1..Len(runLog)) :
          (/\ i + 1 < k
           /\ runLog[i].exec
           /\ \A j \in (i + 1)..(k - 1) : runLog[j].arg = Skip
           /\ runLog[k].arg = runLog[i].arg)
              => ~runLog[k].exec
    /\ \A k \in (1..Len(runLog)) :
          runLog[k].exec =>
              /\ runLog[k].arg # Skip
              /\ Dispatched(k) = {} \/ runLog[k].arg # LastDispatched(k)

\* A was dispatched, undefined was delivered, A was delivered again
C26_Witness ==
    /\ Len(runLog) = 3
    /\ runLog[1].arg = Args(<<Prim(3)>>) /\ runLog[1].exec
    /\ runLog[2].arg = Skip /\ ~runLog[2].exec
    /\ runLog[3].arg = Args(<<Prim(3)>>) /\ ~runLog[3].exec
    /\ hasExecuted /\ lastArgs = Args(<<Prim(3)>>)

\* ---- usefulApi, continued

\* C23: once execute was called, isLoading is true exactly while the most
\* recently started invocation has not run its finally step; a continuation
\* of a superseded invocation changes neither isLoading nor isFinished.
C23_LoadingFlagInvariant ==
    /\ [](executeCounter >= 1 => (isLoading <=> ~(calls[Len(calls)].pc \in {"finishedOk", "finishedErr"})))
    /\ [][((Len(calls') = Len(calls)) /\ (\E i \in 1..(Len(calls) - 1) :
           calls'[i].pc # calls[i].pc)) => UNCHANGED <<isLoading, isFinished>>]_vars

\* the first invocation ran all its continuations while the second is
\* pending: the flags still say loading
C23_Witness ==
    /\ Len(calls) = 2
    /\ calls[1].pc = "finishedOk"
    /\ calls[2].pc = "pending"
    /\ isLoading /\ ~isFinished

\* C24: error becomes undefined only in a step that starts an execute call
\* and a success leaves it alone; response is left alone by the start of
\* execute and by a failure. So when the first of two invocations fails after
\* the second has started and the second succeeds, response is the second
\* result and error the first failure.
C24_ErrorAndResponseFrames ==
    /\ [][(error # Undefined /\ error' = Undefined) =>
             executeCounter' = executeCounter + 1]_vars
    /\ [][\A i \in Invocations :
           (calls[i].pc = "pending" /\ calls'[i].pc = "resolved") => error' = error]_vars
    /\ [][(executeCounter' # executeCounter \/ \E i \in Invocations :
           (calls[i].pc = "pending" /\ calls'[i].pc = "rejected")) =>
             response' = response]_vars
    /\ []((/\ Len(calls) = 2
           /\ calls[1].pc \in {"rejected", "finishedErr"}
           /\ calls[2].pc \in {"resolved", "finishedOk"}
           /\ lastFailure = [value |-> ErrorOf(1), executeSince |-> FALSE])
             => (response = ResultOf(2) /\ error = ErrorOf(1)))

\* both invocations have run all their continuations, the superseded one
\* having failed after the second started: its failure is still in error
C24_Witness ==
    /\ Len(calls) = 2
    /\ calls[1].pc = "finishedErr"
    /\ calls[2].pc = "finishedOk"
    /\ lastFailure = [value |-> ErrorOf(1), executeSince |-> FALSE]
    /\ response = ResultOf(2)
    /\ error = ErrorOf(1)

\* C25: the on-success subscribers of an invocation read its result in
\* response; the on-error subscribers of an invocation read in error the
\* value from before the failure, undefined or an earlier failure, and error
\* holds the failure once the continuation has run.
C25_NotificationOrder ==
    /\ [](\A e \in BagToSet(events) :
            /\ e.hook = "success" =>
                  (e.payload.result = ResultOf(e.by) /\ e.seen.response = ResultOf(e.by))
            /\ e.hook = "error" =>
                  /\ e.payload = ErrorOf(e.by)
                  /\ e.seen.error # ErrorOf(e.by)
                  /\ e.seen.error \in {Undefined} \cup ({ErrorOf(j) :
                         j \in {k \in Invocations \ {(e.by)} : calls[k].pc \in {"rejected",
                         "finishedErr"}}}))
    /\ [][\A i \in Invocations :
            (calls[i].pc = "pending" /\ calls'[i].pc = "rejected") =>
               /\ trigger("error", i, ErrorOf(i), Refs(response, error)) \in BagToSet(events')
               /\ error' = ErrorOf(i)]_vars

\* a subscriber was notified of the second failure while error still held
\* the first
C25_Witness ==
    \E e \in BagToSet(events) :
        /\ e.hook = "error" /\ e.by = 2
        /\ e.deliveries = 1
        /\ e.seen.error = ErrorOf(1)
        /\ error = ErrorOf(2)

\* ---- useMsalStore

\* C27: getAccessToken resolves to no token whose recorded expiry is less
\* than 20 seconds after the time of the call; a call that finds the cached
\* token missing, expired or within 20 seconds of expiry starts a request of
\* auth.loadApiToken, unless a request is in flight, which the call joins.
C27_AccessTokenFreshness ==
    /\ [](\A i \in DOMAIN tokenCalls :
            (tokenCalls[i].settled /\ tokenCalls[i].value # Null
                 /\ tokenCalls[i].value.s # "")
                => tokenCalls[i].expires >= tokenCalls[i].at + Margin)
    /\ [][((Len(tokenCalls') = Len(tokenCalls) + 1) /\ ~CachedTokenUsable) =>
             IF (accessTokenPromise # Null /\ ~accessTokenPromise.settled)
             THEN /\ loadRequests' = loadRequests
                  /\ tokenCalls'[Len(tokenCalls')].request = accessTokenPromise.request
             ELSE /\ Len(loadRequests') = Len(loadRequests) + 1
                  /\ loadRequests'[Len(loadRequests')].state = "pending"]_vars

\* C28: authTokenProvider(url) returns null for a url whose lower-cased host
\* is not in allowedHosts, without a call of getAccessToken or loadApiToken
\* and without a change of the token state; getAccessToken is reached only
\* for urls whose lower-cased host is in allowedHosts.
C28_TokenConfinement ==
    /\ [][(Len(providerCalls') = Len(providerCalls) + 1) =>
             LET p == providerCalls'[Len(providerCalls')]
             IN (p.url # [kind |-> "invalid"] /\ toLowerCase(URLHost(p.url)) \notin allowedHosts)
                   => /\ p.outcome = "null"
                      /\ p.call = 0
                      /\ UNCHANGED <<tokenCalls, loadRequests, accessTokenPromise,
                                     accessToken, accessTokenExpires>>]_vars
    /\ [](\A i \in DOMAIN providerCalls :
            providerCalls[i].outcome = "token"
                => /\ providerCalls[i].url # [kind |-> "invalid"]
                   /\ toLowerCase(URLHost(providerCalls[i].url)) \in allowedHosts
                   /\ providerCalls[i].call \in DOMAIN tokenCalls)

\* a usable token is cached and the provider answered null for a host that
\* the configuration lists in upper case only
C28_Witness ==
    /\ CachedTokenUsable
    /\ allowedHosts = {<<"A">>, <<"b">>}
    /\ Len(providerCalls) = 1
    /\ providerCalls[1].url # [kind |-> "invalid"]
    /\ providerCalls[1].url.hostname = <<"A">>
    /\ providerCalls[1].outcome = "null"
    /\ Len(tokenCalls) = 1

\* ---- Auth
\* C29: a promise returned by Auth.initialize resolves only after
\* msalInstance.initialize() and handleRedirectPromise() have completed, and
\* Auth.initialize starts msalInstance.initialize() at most once.
C29_InitializeCompletes ==
    /\ \A i \in DOMAIN initializeCalls :
          initializeCalls[i].state = "resolved"
              => initializeCalls[i].initialized /\ initializeCalls[i].redirectHandled
    /\ msalInstance.initializeStarts <= 1

\* C30: ready is true exactly when status is "none", inProgress exactly when
\* status is login, logout, acquireToken, ssoSilent or handleRedirect, the
\* two are never both true, redirect is true only while inProgress is, and
\* a callback whose message yields no new status leaves status, inProgress,
\* ready and redirect as they were.
C30_StatusFlags ==
    /\ [](/\ ready <=> status = "none"
          /\ inProgress <=> status \in InProgressStatuses
          /\ ~(ready /\ inProgress)
          /\ redirect => inProgress
          /\ status \in ({"startup", "none"} \cup InProgressStatuses))
    /\ [][((eventCount' = eventCount + 1) /\ event'.yielded = "null")
             => UNCHANGED <<status, inProgress, ready, redirect>>]_vars

\* a login started while the redirect was being handled: redirect is still
\* set, with inProgress
C30_Witness ==
    /\ eventCount = 2
    /\ event.kind = "event"
    /\ event.message.eventType = "LOGIN_START"
    /\ status = "login"
    /\ redirect /\ inProgress /\ ~ready

====
